---------------------------- MODULE Spec2Model ----------------------------
(***************************************************************************)
(* A model of fontgardener2: the filename codec (src/src/filenames.rs),    *)
(* the Fontgarden storage engine (src/src/structs.rs), and the UFO merge   *)
(* and export engines (src/src/main.rs, src/src/ufo.rs).                   *)
(*                                                                         *)
(* Names (glyph, layer, set and style names) are sequences of characters;  *)
(* a character is a one-token string.  "Dz" stands for the titlecase       *)
(* letter U+01C5 and "dz" for its lowercase form U+01C6.                   *)
(***************************************************************************)
EXTENDS Integers, Sequences, FiniteSets, TLC

VARIABLES
    name,          \* codec: the logical name handed to name_to_filename
    variant,       \* codec: a second name with the same case folding as name
    filename,      \* codec: name_to_filename(name), or <<>> before encoding
    filename2,     \* codec: name_to_filename(variant)
    roundtripped,  \* codec: filename_to_name(filename)
    cpc,           \* codec: "start" | "encoded" | "decoded" | "off"
    garden,        \* the in-memory Fontgarden: its `glyphs` map, glyph name -> Glyph
    disk,          \* the directory tree at the fontgarden path
    loaded,        \* what the last Fontgarden::load returned, NotLoaded before
    readOrder,     \* the order in which that load's read_dir listed the root's files
    sources,       \* merge: the sources given to the import, in the order given
    engine,        \* merge: "main.rs" or "ufo.rs", the merge function that ran
    mpc,           \* merge: "start" | "merged" | "failed" | "exported" | "remerged" |
                   \*        "stored" | "imported" | "saved" | "off"
    style_filter,  \* export: the source_names of the last export
    exported,      \* export: what the last export returned
    remerged,      \* merge: the project merged from the exported sources
    target_sets,   \* selective import: the target sets given
    diff,          \* selective import: the diff of the import against garden
    updated,       \* selective import: the project after the import
    replaced,      \* storage: what the directory held when the last save began
    merge_error,   \* merge: the error the merge returned, None without one
    first_default, \* merge: the name of the default source of the merge, None before
    merged_twice,  \* merge: the project after the sources were merged a second time
    fs_folds,      \* save in steps: whether the filesystem compares names without case
    spc,           \* save in steps: "off" | "start" | "writing" | "aborting" | "done"
    pending,       \* save in steps: the manifests and the glyph tasks still to run
    save_result,   \* save in steps: what save returns
    io_failed      \* save in steps: whether a filesystem call of the save has failed

codecVars == <<name, variant, filename, filename2, roundtripped, cpc>>
storeVars == <<garden, disk, loaded, readOrder, replaced>>
mergeVars == <<sources, engine, mpc, style_filter, exported, remerged, merge_error,
               first_default, merged_twice>>
diffVars == <<target_sets, diff, updated>>
stepVars == <<fs_folds, spc, pending, save_result, io_failed>>
vars == <<name, variant, filename, filename2, roundtripped, cpc,
          garden, disk, loaded, readOrder,
          sources, engine, mpc, style_filter, exported, remerged,
          target_sets, diff, updated, replaced, merge_error, first_default, merged_twice,
          fs_folds, spc, pending, save_result, io_failed>>

----------------------------------------------------------------------------
(* Bounds *)

\* longest name fed to the codec
MaxLen == 3

\* most rows of a manifest found on disk
MaxRows == 2

\* most sources given to one import
MaxSources == 2

----------------------------------------------------------------------------
(* Characters *)

\* the characters names are drawn from: a cased ASCII letter in both cases,
\* the escape marker, a caseless character, and the titlecase digraph
\* U+01C5 ("Dz") with its lowercase form U+01C6 ("dz")
Chars == {"A", "a", "_", ".", "Dz", "dz"}

\* char::is_uppercase: the Unicode Uppercase property.  U+01C5 is a titlecase
\* letter (general category Lt): neither Uppercase nor Lowercase.
is_uppercase(c) == c \in {"A", "B", "C", "L", "R", "T"}

\* the simple case folding a case-insensitive filesystem applies to one character
FoldChar(c) ==
    CASE c = "A" -> "a"
      [] c = "B" -> "b"
      [] c = "C" -> "c"
      [] c = "L" -> "l"
      [] c = "R" -> "r"
      [] c = "T" -> "t"
      [] c = "Dz" -> "dz"
      [] OTHER -> c

\* a file name as a case-insensitive filesystem compares it
Fold(s) == [i \in 1..Len(s) |-> FoldChar(s[i])]

\* all sequences over S of length at most n
RECURSIVE SeqsUpTo(_, _)
SeqsUpTo(S, n) ==
    IF n = 0 THEN {<<>>}
    ELSE LET shorter == SeqsUpTo(S, n - 1)
         IN  shorter \cup {Append(s, c) : s \in {t \in shorter : Len(t) = n - 1}, c \in S}

----------------------------------------------------------------------------
(* Filename codec: src/src/filenames.rs *)

\* name_to_filename without the doubling of a literal underscore
RECURSIVE name_to_filename_NoDoubling(_)
name_to_filename_NoDoubling(n) ==
    IF n = <<>> THEN <<>>
    ELSE LET c == Head(n)
             rest == name_to_filename_NoDoubling(Tail(n))
         IN  IF is_uppercase(c) THEN <<c, "_">> \o rest
             ELSE <<c>> \o rest

\* name_to_filename: an uppercase character is followed by '_', a literal '_'
\* is doubled, every other character is copied
RECURSIVE name_to_filename(_)
name_to_filename(n) ==
    IF n = <<>> THEN <<>>
    ELSE LET c == Head(n)
             rest == name_to_filename(Tail(n))
         IN  IF is_uppercase(c) THEN <<c, "_">> \o rest
             ELSE IF c = "_" THEN <<"_", "_">> \o rest
             ELSE <<c>> \o rest

\* the loop of filename_to_name from position i on; acc is `name`, up and us are
\* previous_char_was_uppercase and previous_char_was_underscore
RECURSIVE filename_to_name_loop(_, _, _, _, _)
filename_to_name_loop(f, i, acc, up, us) ==
    IF i > Len(f) THEN acc
    ELSE LET c == f[i]
         IN  IF c = "_" /\ (up \/ us)
             THEN filename_to_name_loop(f, i + 1, acc, FALSE, FALSE)
             ELSE filename_to_name_loop(f, i + 1, Append(acc, c), is_uppercase(c), c = "_")

filename_to_name(f) == filename_to_name_loop(f, 1, <<>>, FALSE, FALSE)

\* the names with the same case folding as n
CaseVariants(n) == {m \in SeqsUpTo(Chars, Len(n)) : Len(m) = Len(n) /\ Fold(m) = Fold(n)}

----------------------------------------------------------------------------
(* Values *)

\* Option<T>: None is the empty set and Some(x) the singleton {x}
None == {}
Some(x) == {x}
Unwrap(o) == CHOOSE x \in o : TRUE

Range(f) == {f[i] : i \in DOMAIN f}

\* the orders in which a directory listing or a HashMap may yield the members of S
Perms(S) == {s \in [1..Cardinality(S) -> S] : Range(s) = S}

\* Fontgarden::COMMON_SET_NAME
Common == <<"C", "o", "m", "m", "o", "n">>

\* the names of styles, sets and layers used below
Regular == <<"R", "e", "g", "u", "l", "a", "r">>
Bold == <<"B", "o", "l", "d">>
Test == <<"T", "e", "s", "t">>
Background == <<"b", "a", "c", "k", "g", "r", "o", "u", "n", "d">>

\* the byte value of a character, which orders names as str::cmp does
CharCode(c) ==
    CASE c = " " -> 32 [] c = "." -> 46
      [] c = "A" -> 65 [] c = "B" -> 66 [] c = "C" -> 67 [] c = "L" -> 76
      [] c = "R" -> 82 [] c = "T" -> 84 [] c = "_" -> 95
      [] c = "a" -> 97 [] c = "b" -> 98 [] c = "x" -> 120
      [] c = "Dz" -> 453 [] c = "dz" -> 454
      [] OTHER -> 200

\* a < b for names, as <str as Ord>::cmp
RECURSIVE NameLess(_, _)
NameLess(a, b) ==
    IF b = <<>> THEN FALSE
    ELSE IF a = <<>> THEN TRUE
    ELSE IF CharCode(Head(a)) # CharCode(Head(b)) THEN CharCode(Head(a)) < CharCode(Head(b))
    ELSE NameLess(Tail(a), Tail(b))

\* the names of S in ascending order: sorted_glyph_names.sort()
RECURSIVE SortNames(_)
SortNames(S) ==
    IF S = {} THEN <<>>
    ELSE LET least == CHOOSE n \in S : \A m \in S \ {n} : NameLess(n, m)
         IN  <<least>> \o SortNames(S \ {least})

----------------------------------------------------------------------------
(* Manifest records: src/src/structs.rs, SetRecord and codepoints_serde *)

\* OpenTypeCategory as serde writes it (rename_all = "lowercase")
CategoryText(c) ==
    CASE c = "Unassigned" -> <<"unassigned">>
      [] c = "Base" -> <<"base">>
      [] c = "Ligature" -> <<"ligature">>
      [] c = "Mark" -> <<"mark">>
      [] c = "Component" -> <<"component">>

\* OpenTypeCategory::from_str: Some(category), or None for Err
OpenTypeCategory_from_str(t) ==
    CASE t = <<"base">> -> Some("Base")
      [] t = <<"component">> -> Some("Component")
      [] t = <<"ligature">> -> Some("Ligature")
      [] t = <<"mark">> -> Some("Mark")
      [] t = <<"unassigned">> -> Some("Unassigned")
      [] OTHER -> None

HexDigits == <<"0", "1", "2", "3", "4", "5", "6", "7", "8", "9", "A", "B", "C", "D", "E", "F">>

\* format!("{:X}", n)
RECURSIVE UpperHex(_)
UpperHex(n) ==
    IF n < 16 THEN <<HexDigits[n + 1]>>
    ELSE Append(UpperHex(n \div 16), HexDigits[(n % 16) + 1])

RECURSIVE ZeroPad(_, _)
ZeroPad(w, width) == IF Len(w) >= width THEN w ELSE ZeroPad(<<"0">> \o w, width)

\* format!("{:04X}", c as usize)
FormatCodepoint(c) == ZeroPad(UpperHex(c), 4)

\* [String]::join
RECURSIVE Join(_, _)
Join(words, sep) ==
    IF words = <<>> THEN <<>>
    ELSE IF Len(words) = 1 THEN words[1]
    ELSE words[1] \o sep \o Join(Tail(words), sep)

\* codepoints_serde::serialize: the code points in iteration order, in hex, joined by " "
codepoints_serialize(codepoints) ==
    Join([i \in 1..Len(codepoints) |-> FormatCodepoint(codepoints[i])], <<" ">>)

\* str::split_whitespace from position i on; word is the word being collected
RECURSIVE split_whitespace_loop(_, _, _)
split_whitespace_loop(text, i, word) ==
    IF i > Len(text) THEN (IF word = <<>> THEN <<>> ELSE <<word>>)
    ELSE IF text[i] = " "
         THEN (IF word = <<>> THEN <<>> ELSE <<word>>) \o split_whitespace_loop(text, i + 1, <<>>)
         ELSE split_whitespace_loop(text, i + 1, Append(word, text[i]))

split_whitespace(text) == split_whitespace_loop(text, 1, <<>>)

\* char::to_digit(16) of one digit, -1 when it is none; both cases of a-f are digits
DigitValue(d) ==
    CASE d = "a" -> 10 [] d = "b" -> 11 [] d = "c" -> 12 [] d = "d" -> 13
      [] d = "e" -> 14 [] d = "f" -> 15
      [] \E i \in 1..16 : HexDigits[i] = d -> (CHOOSE i \in 1..16 : HexDigits[i] = d) - 1
      [] OTHER -> -1

\* u32::from_str_radix(word, 16) from digit i on with acc read so far; -1 for Err.
\* A value beyond char::MAX is refused here already: it overflows u32 or is refused
\* by char::try_from, and either way the row fails to deserialize.
RECURSIVE from_str_radix_loop(_, _, _)
from_str_radix_loop(word, i, acc) ==
    IF i > Len(word) THEN acc
    ELSE IF DigitValue(word[i]) < 0 \/ acc * 16 + DigitValue(word[i]) > 1114111 THEN -1
    ELSE from_str_radix_loop(word, i + 1, acc * 16 + DigitValue(word[i]))

from_str_radix(word) == IF word = <<>> THEN -1 ELSE from_str_radix_loop(word, 1, 0)

\* char::try_from(u32) succeeds on a Unicode scalar value
IsScalarValue(n) == (0 <= n /\ n < 55296) \/ (57343 < n /\ n <= 1114111)

\* Codepoints::insert: an IndexSet keeps the first occurrence
InsertCodepoint(codepoints, c) ==
    IF c \in Range(codepoints) THEN codepoints ELSE Append(codepoints, c)

\* codepoints_serde::deserialize over the words from i on
RECURSIVE codepoints_deserialize_loop(_, _, _)
codepoints_deserialize_loop(words, i, acc) ==
    IF i > Len(words) THEN [ok |-> TRUE, val |-> acc]
    ELSE LET n == from_str_radix(words[i])
         IN  IF n < 0 \/ ~IsScalarValue(n) THEN [ok |-> FALSE, val |-> <<>>]
             ELSE codepoints_deserialize_loop(words, i + 1, InsertCodepoint(acc, n))

codepoints_deserialize(text) == codepoints_deserialize_loop(split_whitespace(text), 1, <<>>)

\* the CSV row csv::Writer::serialize writes for a SetRecord: Option<String> None is
\* the empty field
SetRecordRow(glyph_name, glyph) ==
    [name |-> glyph_name,
     postscript_name |-> IF glyph.postscript_name = None THEN <<>>
                         ELSE Unwrap(glyph.postscript_name),
     codepoints |-> codepoints_serialize(glyph.codepoints),
     opentype_category |-> CategoryText(glyph.opentype_category)]

\* whether csv's deserializer turns the row into a SetRecord
RowDeserializes(row) ==
    /\ codepoints_deserialize(row.codepoints).ok
    /\ OpenTypeCategory_from_str(row.opentype_category) # None

\* the SetRecord csv's deserializer reads from a row: an empty field is None
SetRecordOfRow(row) ==
    [name |-> row.name,
     postscript_name |-> IF row.postscript_name = <<>> THEN None
                         ELSE Some(row.postscript_name),
     codepoints |-> codepoints_deserialize(row.codepoints).val,
     opentype_category |-> Unwrap(OpenTypeCategory_from_str(row.opentype_category))]

----------------------------------------------------------------------------
(* Layer payloads: src/src/structs.rs, Layer and its serde attributes *)

\* AffineTransformation::identity
IdentityTransformation ==
    [x_scale |-> 1, xy_scale |-> 0, yx_scale |-> 0, y_scale |-> 1, x_offset |-> 0, y_offset |-> 0]

\* f restricted to the keys in K
Restrict(f, K) == [k \in K |-> f[k]]

\* AffineTransformation as JSON: a field at its default is skipped
TransformationToJson(t) ==
    Restrict(t, {k \in DOMAIN t : t[k] # IdentityTransformation[k]})

TransformationFromJson(j) ==
    [k \in DOMAIN IdentityTransformation |->
        IF k \in DOMAIN j THEN j[k] ELSE IdentityTransformation[k]]

\* Component as JSON: the transformation is skipped when it is the identity
ComponentToJson(c) ==
    IF c.transformation = IdentityTransformation THEN [name |-> c.name]
    ELSE [name |-> c.name, transformation |-> TransformationToJson(c.transformation)]

ComponentFromJson(j) ==
    [name |-> j.name,
     transformation |-> IF "transformation" \in DOMAIN j
                        THEN TransformationFromJson(j.transformation)
                        ELSE IdentityTransformation]

\* ContourPoint as JSON: typ is skipped when OffCurve, smooth when false
PointToJson(p) ==
    Restrict(p, {"x", "y"} \cup (IF p.typ # "OffCurve" THEN {"typ"} ELSE {})
                           \cup (IF p.smooth THEN {"smooth"} ELSE {}))

PointFromJson(j) ==
    [x |-> j.x, y |-> j.y,
     typ |-> IF "typ" \in DOMAIN j THEN j.typ ELSE "OffCurve",
     smooth |-> IF "smooth" \in DOMAIN j THEN j.smooth ELSE FALSE]

ContourToJson(c) == [points |-> [i \in 1..Len(c.points) |-> PointToJson(c.points[i])]]
ContourFromJson(j) == [points |-> [i \in 1..Len(j.points) |-> PointFromJson(j.points[i])]]

\* serde_json::to_writer_pretty(layer): an absent vertical_origin, x_advance or
\* y_advance is skipped
LayerToJson(layer) ==
    LET always == [anchors |-> layer.anchors,
                   components |-> [i \in 1..Len(layer.components) |->
                                      ComponentToJson(layer.components[i])],
                   contours |-> [i \in 1..Len(layer.contours) |->
                                    ContourToJson(layer.contours[i])]]
        optional == {k \in {"vertical_origin", "x_advance", "y_advance"} : layer[k] # None}
    IN  [k \in DOMAIN always \cup optional |->
            IF k \in DOMAIN always THEN always[k] ELSE Unwrap(layer[k])]

\* a payload serde_json reads as a Layer: the three lists are required
PayloadIsLayer(j) == {"anchors", "components", "contours"} \subseteq DOMAIN j

\* serde_json::from_reader::<Layer>
LayerFromJson(j) ==
    [anchors |-> j.anchors,
     components |-> [i \in 1..Len(j.components) |-> ComponentFromJson(j.components[i])],
     contours |-> [i \in 1..Len(j.contours) |-> ContourFromJson(j.contours[i])],
     vertical_origin |-> IF "vertical_origin" \in DOMAIN j THEN Some(j.vertical_origin) ELSE None,
     x_advance |-> IF "x_advance" \in DOMAIN j THEN Some(j.x_advance) ELSE None,
     y_advance |-> IF "y_advance" \in DOMAIN j THEN Some(j.y_advance) ELSE None]

\* Layer::is_empty
Layer_is_empty(layer) ==
    /\ layer.anchors = <<>>
    /\ layer.components = <<>>
    /\ layer.contours = <<>>
    /\ layer.x_advance = None
    /\ layer.y_advance = None

\* Glyph::is_empty
Glyph_is_empty(glyph) == \A l \in DOMAIN glyph.layers : Layer_is_empty(glyph.layers[l])

\* Layer::default
DefaultLayer ==
    [anchors |-> <<>>, components |-> <<>>, contours |-> <<>>,
     vertical_origin |-> None, x_advance |-> None, y_advance |-> None]

\* Glyph::default
DefaultGlyph ==
    [codepoints |-> <<>>, layers |-> <<>>, opentype_category |-> "Unassigned",
     postscript_name |-> None, set |-> None]

\* Codepoints == Codepoints: IndexSet equality ignores the order
CodepointsEq(a, b) == Range(a) = Range(b)

\* Glyph == Glyph (derived PartialEq)
GlyphEq(a, b) ==
    /\ CodepointsEq(a.codepoints, b.codepoints)
    /\ a.layers = b.layers
    /\ a.opentype_category = b.opentype_category
    /\ a.postscript_name = b.postscript_name
    /\ a.set = b.set

\* Fontgarden == Fontgarden (derived PartialEq)
FontgardenEq(a, b) ==
    /\ DOMAIN a = DOMAIN b
    /\ \A g \in DOMAIN a : GlyphEq(a[g], b[g])

----------------------------------------------------------------------------
(* The directory tree and Fontgarden::save / Fontgarden::load: src/src/structs.rs *)

\* disk.is_dir: whether the path is a directory; disk.files: the files in it, file
\* name -> rows of the CSV file; disk.glyphs: the directories under glyphs/,
\* directory name -> (file name -> JSON payload)
NoDirectory == [is_dir |-> FALSE, files |-> <<>>, glyphs |-> <<>>]

\* the index of the last '.' of a file name, 0 when it has none
LastDot(f) ==
    LET dots == {i \in 1..Len(f) : f[i] = "."}
    IN  IF dots = {} THEN 0 ELSE CHOOSE i \in dots : \A j \in dots : j <= i

\* Path::extension: none for a name without '.', or with only a leading '.'
Extension(f) == IF LastDot(f) > 1 THEN Some(SubSeq(f, LastDot(f) + 1, Len(f))) ELSE None

\* Path::file_stem
FileStem(f) == IF LastDot(f) > 1 THEN SubSeq(f, 1, LastDot(f) - 1) ELSE f

\* str::strip_prefix
strip_prefix(s, prefix) ==
    IF Len(s) >= Len(prefix) /\ SubSeq(s, 1, Len(prefix)) = prefix
    THEN Some(SubSeq(s, Len(prefix) + 1, Len(s)))
    ELSE None

\* the set a glyph is written to: set.as_deref().unwrap_or(COMMON_SET_NAME)
SetNameOf(glyph) == IF glyph.set = None THEN Common ELSE Unwrap(glyph.set)

\* the manifest file of a set: name_to_filename(&format!("set.{set_name}.csv"))
SetInfoPath(set_name) ==
    name_to_filename(<<"s", "e", "t", ".">> \o set_name \o <<".", "c", "s", "v">>)

\* the payload file of a layer: format!("{}.json", name_to_filename(layer_name))
LayerFilename(layer_name) == name_to_filename(layer_name) \o <<".", "j", "s", "o", "n">>

\* the rows of one manifest: the glyphs of the set, in name order
ManifestRows(glyphs, set_name) ==
    LET sorted_glyph_names == SortNames(DOMAIN glyphs)
        glyph_names == SelectSeq(sorted_glyph_names,
                                 LAMBDA n : SetNameOf(glyphs[n]) = set_name)
    IN  [i \in 1..Len(glyph_names) |-> SetRecordRow(glyph_names[i], glyphs[glyph_names[i]])]

\* save that writes a payload file for every layer of a stored glyph, the empty
\* ones too
save_EveryLayer(glyphs) ==
    LET sets == {SetNameOf(glyphs[n]) : n \in DOMAIN glyphs}
        stored == {n \in DOMAIN glyphs : ~Glyph_is_empty(glyphs[n])}
        layersOf(n) == DOMAIN glyphs[n].layers
    IN  [is_dir |-> TRUE,
         files |-> [f \in {SetInfoPath(s) : s \in sets} |->
                       ManifestRows(glyphs, CHOOSE s \in sets : SetInfoPath(s) = f)],
         glyphs |-> [d \in {name_to_filename(n) : n \in stored} |->
                       LET n == CHOOSE m \in stored : name_to_filename(m) = d
                       IN  [f \in {LayerFilename(l) : l \in layersOf(n)} |->
                              LayerToJson(glyphs[n].layers[
                                  CHOOSE l \in layersOf(n) : LayerFilename(l) = f])]]]

\* Fontgarden::save: the directory is removed and created anew, one manifest is
\* written per set, and one directory per non-empty glyph with one file per
\* non-empty layer
save(glyphs) ==
    LET sets == {SetNameOf(glyphs[n]) : n \in DOMAIN glyphs}
        stored == {n \in DOMAIN glyphs : ~Glyph_is_empty(glyphs[n])}
        layersOf(n) == {l \in DOMAIN glyphs[n].layers : ~Layer_is_empty(glyphs[n].layers[l])}
    IN  [is_dir |-> TRUE,
         files |-> [f \in {SetInfoPath(s) : s \in sets} |->
                       ManifestRows(glyphs, CHOOSE s \in sets : SetInfoPath(s) = f)],
         glyphs |-> [d \in {name_to_filename(n) : n \in stored} |->
                       LET n == CHOOSE m \in stored : name_to_filename(m) = d
                       IN  [f \in {LayerFilename(l) : l \in layersOf(n)} |->
                              LayerToJson(glyphs[n].layers[
                                  CHOOSE l \in layersOf(n) : LayerFilename(l) = f])]]]

\* a save that leaves what the path holds in place
remove_dir_all_Skipped(d) == d

\* std::fs::remove_dir_all(path): nothing is left at the path
remove_dir_all(d) == NoDirectory

\* create_dir, Writer::from_path, create_dir_all and File::create: the directory
\* d after the files of `written` were created in it, a file of the same name
\* replaced
write_into(d, written) ==
    [is_dir |-> TRUE,
     files |-> [f \in DOMAIN d.files \cup DOMAIN written.files |->
                   IF f \in DOMAIN written.files THEN written.files[f] ELSE d.files[f]],
     glyphs |-> [g \in DOMAIN d.glyphs \cup DOMAIN written.glyphs |->
                   IF g \notin DOMAIN written.glyphs THEN d.glyphs[g]
                   ELSE IF g \notin DOMAIN d.glyphs THEN written.glyphs[g]
                   ELSE [f \in DOMAIN d.glyphs[g] \cup DOMAIN written.glyphs[g] |->
                           IF f \in DOMAIN written.glyphs[g] THEN written.glyphs[g][f]
                           ELSE d.glyphs[g][f]]]]

\* Fontgarden::save(path) on a path that holds d: what exists at the path is
\* removed before the project is written
save_at(d, glyphs) ==
    write_into(IF d.is_dir THEN remove_dir_all(d) ELSE d, save(glyphs))

\* the set a manifest file names: Some(set name), or None for a file load skips
ManifestSetName(f) ==
    IF Extension(f) # Some(<<"c", "s", "v">>) THEN None
    ELSE LET set_filename == strip_prefix(FileStem(f), <<"s", "e", "t", ".">>)
         IN  IF set_filename = None THEN None
             ELSE Some(filename_to_name(Unwrap(set_filename)))

\* the glyph a row adds to the map
GlyphOfRecord(record, set_name) ==
    [codepoints |-> record.codepoints,
     layers |-> <<>>,
     opentype_category |-> record.opentype_category,
     postscript_name |-> record.postscript_name,
     set |-> IF set_name = Common THEN None ELSE Some(set_name)]

\* load_rows without the contains_key check: a repeated name replaces the glyph
RECURSIVE load_rows_NoDuplicateCheck(_, _, _, _, _)
load_rows_NoDuplicateCheck(path, set_name, rows, i, glyphs) ==
    IF i > Len(rows) THEN [ok |-> TRUE, glyphs |-> glyphs]
    ELSE IF ~RowDeserializes(rows[i])
         THEN [ok |-> FALSE, err |-> "LoadSetData", args |-> <<path>>]
    ELSE LET record == SetRecordOfRow(rows[i])
         IN  load_rows_NoDuplicateCheck(path, set_name, rows, i + 1,
                 [n \in DOMAIN glyphs \cup {record.name} |->
                    IF n = record.name THEN GlyphOfRecord(record, set_name) ELSE glyphs[n]])

\* load_rows with an error that names the set the glyph was first read from
RECURSIVE load_rows_NamesFirstSet(_, _, _, _, _)
load_rows_NamesFirstSet(path, set_name, rows, i, glyphs) ==
    IF i > Len(rows) THEN [ok |-> TRUE, glyphs |-> glyphs]
    ELSE IF ~RowDeserializes(rows[i])
         THEN [ok |-> FALSE, err |-> "LoadSetData", args |-> <<path>>]
    ELSE LET record == SetRecordOfRow(rows[i])
         IN  IF record.name \in DOMAIN glyphs
             THEN [ok |-> FALSE, err |-> "DuplicateGlyphs",
                   args |-> <<SetNameOf(glyphs[record.name]), record.name>>]
             ELSE load_rows_NamesFirstSet(path, set_name, rows, i + 1,
                     [n \in DOMAIN glyphs \cup {record.name} |->
                        IF n \in DOMAIN glyphs THEN glyphs[n]
                        ELSE GlyphOfRecord(record, set_name)])

\* the rows of one manifest from row i on, read into glyphs
RECURSIVE load_rows(_, _, _, _, _)
load_rows(path, set_name, rows, i, glyphs) ==
    IF i > Len(rows) THEN [ok |-> TRUE, glyphs |-> glyphs]
    ELSE IF ~RowDeserializes(rows[i])
         THEN [ok |-> FALSE, err |-> "LoadSetData", args |-> <<path>>]
    ELSE LET record == SetRecordOfRow(rows[i])
         IN  IF record.name \in DOMAIN glyphs
             THEN [ok |-> FALSE, err |-> "DuplicateGlyphs", args |-> <<set_name, record.name>>]
             ELSE load_rows(path, set_name, rows, i + 1,
                     [n \in DOMAIN glyphs \cup {record.name} |->
                        IF n \in DOMAIN glyphs THEN glyphs[n]
                        ELSE GlyphOfRecord(record, set_name)])

\* Fontgarden::load_metadata over the root's files in the order read_dir lists them
RECURSIVE load_metadata(_, _, _, _)
load_metadata(files, order, i, glyphs) ==
    IF i > Len(order) THEN [ok |-> TRUE, glyphs |-> glyphs]
    ELSE LET set_name == ManifestSetName(order[i])
         IN  IF set_name = None THEN load_metadata(files, order, i + 1, glyphs)
             ELSE LET read == load_rows(order[i], Unwrap(set_name), files[order[i]], 1, glyphs)
                  IN  IF read.ok THEN load_metadata(files, order, i + 1, read.glyphs)
                      ELSE read

\* the payload files of a glyph directory: the files with the extension json
PayloadFiles(dir) == {f \in DOMAIN dir : Extension(f) = Some(<<"j", "s", "o", "n">>)}

\* the layer maps reading a glyph directory can give: when two files decode to the
\* same layer name the one read_dir lists last stays
LayerMaps(dir) ==
    LET layer_names == {filename_to_name(FileStem(f)) : f \in PayloadFiles(dir)}
        readings(l) == {LayerFromJson(dir[f]) :
                          f \in {g \in PayloadFiles(dir) : filename_to_name(FileStem(g)) = l}}
    IN  IF \A l \in layer_names : Cardinality(readings(l)) = 1
        THEN {[l \in layer_names |-> CHOOSE r \in readings(l) : TRUE]}
        ELSE {m \in [layer_names -> UNION {readings(l) : l \in layer_names}] :
                \A l \in layer_names : m[l] \in readings(l)}

\* the second pass of load keeping only the glyphs that passed the filter of
\* the glyph directories
load_layers_OnlyWithDirectory(d, glyphs) ==
    LET with_dir == {n \in DOMAIN glyphs : name_to_filename(n) \in DOMAIN d.glyphs}
        dirOf(n) == d.glyphs[name_to_filename(n)]
        malformed == {p \in with_dir \X UNION {PayloadFiles(dirOf(n)) : n \in with_dir} :
                        /\ p[2] \in PayloadFiles(dirOf(p[1]))
                        /\ ~PayloadIsLayer(dirOf(p[1])[p[2]])}
    IN  IF malformed # {}
        THEN {[ok |-> FALSE, err |-> "LoadLayerJson",
               args |-> <<name_to_filename(p[1]), p[2], p[1]>>] : p \in malformed}
        ELSE LET maps == UNION {LayerMaps(dirOf(n)) : n \in with_dir}
                 picks == IF \A n \in with_dir : Cardinality(LayerMaps(dirOf(n))) = 1
                          THEN {[n \in with_dir |-> CHOOSE m \in LayerMaps(dirOf(n)) : TRUE]}
                          ELSE {q \in [with_dir -> maps] :
                                  \A n \in with_dir : q[n] \in LayerMaps(dirOf(n))}
             IN  {[ok |-> TRUE,
                   glyphs |-> [n \in with_dir |->
                                 [glyphs[n] EXCEPT !.layers = pick[n]]]] :
                    pick \in picks}

\* the second pass of Fontgarden::load: every glyph with a directory gets the
\* layers of that directory; a malformed payload fails the load
load_layers(d, glyphs) ==
    LET with_dir == {n \in DOMAIN glyphs : name_to_filename(n) \in DOMAIN d.glyphs}
        dirOf(n) == d.glyphs[name_to_filename(n)]
        malformed == {p \in with_dir \X UNION {PayloadFiles(dirOf(n)) : n \in with_dir} :
                        /\ p[2] \in PayloadFiles(dirOf(p[1]))
                        /\ ~PayloadIsLayer(dirOf(p[1])[p[2]])}
    IN  IF malformed # {}
        THEN {[ok |-> FALSE, err |-> "LoadLayerJson",
               args |-> <<name_to_filename(p[1]), p[2], p[1]>>] : p \in malformed}
        ELSE LET maps == UNION {LayerMaps(dirOf(n)) : n \in with_dir}
                 picks == IF \A n \in with_dir : Cardinality(LayerMaps(dirOf(n))) = 1
                          THEN {[n \in with_dir |-> CHOOSE m \in LayerMaps(dirOf(n)) : TRUE]}
                          ELSE {q \in [with_dir -> maps] :
                                  \A n \in with_dir : q[n] \in LayerMaps(dirOf(n))}
             IN  {[ok |-> TRUE,
                   glyphs |-> [n \in DOMAIN glyphs |->
                                 IF n \in with_dir
                                 THEN [glyphs[n] EXCEPT !.layers = pick[n]]
                                 ELSE glyphs[n]]] :
                    pick \in picks}

\* load without the is_dir test
load_NoDirectoryTest(d, order) ==
    LET metadata == load_metadata(d.files, order, 1, <<>>)
    IN  IF ~metadata.ok THEN {metadata}
        ELSE load_layers(d, metadata.glyphs)

\* Fontgarden::load: the results it can return when read_dir lists the root's files
\* in `order`
load(d, order) ==
    IF ~d.is_dir THEN {[ok |-> FALSE, err |-> "NotAFontgarden", args |-> <<>>]}
    ELSE LET metadata == load_metadata(d.files, order, 1, <<>>)
         IN  IF ~metadata.ok THEN {metadata}
             ELSE load_layers(d, metadata.glyphs)

NotLoaded == [ok |-> FALSE, err |-> "NotLoaded", args |-> <<>>]

----------------------------------------------------------------------------
(* External sources: norad::Font as the merge and export engines use it *)

(* A source is [style_name, layers, lib]: font_info.style_name as an Option,   *)
(* the layers in the order iter_layers yields them, the default layer first,   *)
(* each [name, glyphs] with glyphs a map glyph name -> norad::Glyph, and lib a *)
(* map key -> plist value.  A plist value is [type, value].                    *)

PostscriptNamesKey == "public.postscriptNames"
OpenTypeCategoriesKey == "public.openTypeCategories"
VerticalOriginKey == "public.verticalOrigin"

PublicDefault == <<"p", "u", "b", "l", "i", "c", ".", "d", "e", "f", "a", "u", "l", "t">>
PublicBackground == <<"p", "u", "b", "l", "i", "c", ".">> \o Background

\* plist::Value::as_dictionary, as_string, as_real
as_dictionary(v) == IF v.type = "dictionary" THEN Some(v.value) ELSE None
as_string(v) == IF v.type = "string" THEN Some(v.value) ELSE None
as_real(v) == IF v.type = "real" THEN Some(v.value) ELSE None

\* str::split_once('.'): None, or Some(<<before, after>>) around the first '.'
split_once(s) ==
    LET dots == {i \in 1..Len(s) : s[i] = "."}
    IN  IF dots = {} THEN None
        ELSE LET first == CHOOSE i \in dots : \A j \in dots : i <= j
             IN  Some(<<SubSeq(s, 1, first - 1), SubSeq(s, first + 1, Len(s))>>)

\* norad::Name::new accepts a name that is not empty and has no control character
is_control(c) == c \in {"\t", "\n"}
NameIsValid(n) == n # <<>> /\ \A i \in 1..Len(n) : ~is_control(n[i])

----------------------------------------------------------------------------
(* Conversions between norad and Fontgarden values: src/src/structs.rs *)

\* From<norad::PointType> for PointType
PointType_from(typ) ==
    CASE typ = "curve" -> "Curve"
      [] typ = "line" -> "Line"
      [] typ = "move" -> "Move"
      [] typ = "offcurve" -> "OffCurve"
      [] typ = "qcurve" -> "QCurve"

\* From<PointType> for norad::PointType
PointType_into(typ) ==
    CASE typ = "Curve" -> "curve"
      [] typ = "Line" -> "line"
      [] typ = "Move" -> "move"
      [] typ = "OffCurve" -> "offcurve"
      [] typ = "QCurve" -> "qcurve"

\* From<&norad::Anchor> for Anchor: an anchor without a name gets the empty name
Anchor_from(anchor) ==
    [name |-> IF anchor.name = None THEN <<>> ELSE Unwrap(anchor.name),
     x |-> anchor.x, y |-> anchor.y]

\* TryFrom<&Anchor> for norad::Anchor: None for Err(NamingError)
Anchor_try_into(anchor) ==
    IF NameIsValid(anchor.name)
    THEN Some([name |-> Some(anchor.name), x |-> anchor.x, y |-> anchor.y])
    ELSE None

\* From<&norad::ContourPoint> for ContourPoint
ContourPoint_from(point) ==
    [x |-> point.x, y |-> point.y, typ |-> PointType_from(point.typ), smooth |-> point.smooth]

\* From<&ContourPoint> for norad::ContourPoint
ContourPoint_into(point) ==
    [x |-> point.x, y |-> point.y, typ |-> PointType_into(point.typ), smooth |-> point.smooth]

\* From<&norad::Contour> for Contour
Contour_from(contour) ==
    [points |-> [i \in 1..Len(contour.points) |-> ContourPoint_from(contour.points[i])]]

\* From<&Contour> for norad::Contour
Contour_into(contour) ==
    [points |-> [i \in 1..Len(contour.points) |-> ContourPoint_into(contour.points[i])]]

\* From<norad::AffineTransform> for AffineTransformation
AffineTransformation_from(transform) ==
    [x_scale |-> transform.x_scale, xy_scale |-> transform.xy_scale,
     yx_scale |-> transform.yx_scale, y_scale |-> transform.y_scale,
     x_offset |-> transform.x_offset, y_offset |-> transform.y_offset]

\* From<AffineTransformation> for norad::AffineTransform
AffineTransformation_into(transform) ==
    [x_scale |-> transform.x_scale, xy_scale |-> transform.xy_scale,
     yx_scale |-> transform.yx_scale, y_scale |-> transform.y_scale,
     x_offset |-> transform.x_offset, y_offset |-> transform.y_offset]

\* From<&norad::Component> for Component
Component_from(component) ==
    [name |-> component.base,
     transformation |-> AffineTransformation_from(component.transform)]

\* TryFrom<&Component> for norad::Component: None for Err(NamingError)
Component_try_into(component) ==
    IF NameIsValid(component.name)
    THEN Some([base |-> component.name,
               transform |-> AffineTransformation_into(component.transformation)])
    ELSE None

\* From<&norad::Glyph> for Layer: the height counts only beside a vertical
\* origin that the glyph's lib holds as a real number
Layer_from(glyph) ==
    LET vertical_origin == IF VerticalOriginKey \in DOMAIN glyph.lib
                           THEN as_real(glyph.lib[VerticalOriginKey])
                           ELSE None
        y_advance == IF vertical_origin = None THEN None ELSE Some(glyph.height)
    IN  [anchors |-> [i \in 1..Len(glyph.anchors) |-> Anchor_from(glyph.anchors[i])],
         components |->
             [i \in 1..Len(glyph.components) |-> Component_from(glyph.components[i])],
         contours |-> [i \in 1..Len(glyph.contours) |-> Contour_from(glyph.contours[i])],
         vertical_origin |-> vertical_origin,
         x_advance |-> Some(glyph.width),
         y_advance |-> y_advance]

----------------------------------------------------------------------------
(* Glyph data: glyphsinfo_rs::GlyphData as categorize_glyph queries it *)

Latin == <<"L", "a", "t", "i", "n">>

\* the records the lookups can find: GlyphData::default() holds a record for
\* "A" (U+0041) and for "a" (U+0061), both of script Latin, and a record
\* without a script for "x"
GlyphDataRecords ==
    {[name |-> <<"A">>, unicode |-> Some(65), script |-> Some(Latin)],
     [name |-> <<"a">>, unicode |-> Some(97), script |-> Some(Latin)],
     [name |-> <<"x">>, unicode |-> None, script |-> None]}

\* GlyphData::record_for_unicode and record_for_name: the records found
record_for_unicode(unicode) == {r \in GlyphDataRecords : r.unicode = Some(unicode)}
record_for_name(glyph_name) == {r \in GlyphDataRecords : r.name = glyph_name}

\* record.script.as_ref().map(|s| format!("{s:?}")) of the record found, if any
ScriptOf(records) == IF records = None THEN None ELSE Unwrap(records).script

\* categorize_glyph: by the first codepoint if the glyph has one, else by the
\* glyph's name, else by the name before the first '.'
categorize_glyph(glyph_name, glyph) ==
    IF glyph.codepoints # <<>> THEN ScriptOf(record_for_unicode(glyph.codepoints[1]))
    ELSE IF record_for_name(glyph_name) # None THEN ScriptOf(record_for_name(glyph_name))
    ELSE IF split_once(glyph_name) # None
         THEN ScriptOf(record_for_name(Unwrap(split_once(glyph_name))[1]))
         ELSE None
----------------------------------------------------------------------------
(* Merge engine: src/src/ufo.rs (Fontgarden::import_ufo_sources) and            *)
(* src/src/main.rs (import_ufos_into_fontgarden)                               *)

\* HashMap::insert
Put(map, k, v) == [x \in DOMAIN map \cup {k} |-> IF x = k THEN v ELSE map[x]]

\* the name a source is known by: its style name, "Regular" without one
source_name_of(font) == IF font.style_name = None THEN Regular ELSE Unwrap(font.style_name)

\* the loop of load_sources without the contains_key check: the source read
\* last takes the name
RECURSIVE load_sources_loop_LastWins(_, _, _)
load_sources_loop_LastWins(srcs, i, source_by_name) ==
    IF i > Len(srcs) THEN [ok |-> TRUE, source_by_name |-> source_by_name]
    ELSE load_sources_loop_LastWins(srcs, i + 1,
                                    Put(source_by_name, source_name_of(srcs[i]), srcs[i]))

\* the loop of load_sources from the i-th path on
RECURSIVE load_sources_loop(_, _, _)
load_sources_loop(srcs, i, source_by_name) ==
    IF i > Len(srcs) THEN [ok |-> TRUE, source_by_name |-> source_by_name]
    ELSE LET source_name == source_name_of(srcs[i])
         IN  IF source_name \in DOMAIN source_by_name
             THEN [ok |-> FALSE, err |-> "DuplicateLayerName", args |-> <<source_name, i>>]
             ELSE load_sources_loop(srcs, i + 1, Put(source_by_name, source_name, srcs[i]))

\* load_sources: the sources by name, or the duplicate-name error
load_sources(srcs) == load_sources_loop(srcs, 1, <<>>)

\* the default source: "Regular" if there is one, else the first source the
\* HashMap yields
default_source_of(source_by_name, order) ==
    IF Regular \in DOMAIN source_by_name THEN Regular ELSE order[1]

\* the key a layer of a source is stored under; the default layer is the first
layer_name_of(source_name, source, li) ==
    IF li = 1 THEN source_name
    ELSE IF source.layers[li].name = PublicBackground
         THEN source_name \o <<".">> \o Background
         ELSE source_name \o <<".">> \o source.layers[li].name

\* import_ufo_sources, one glyph of one layer, with a fresh Glyph in place of
\* the entry the project holds
import_ufo_sources_glyph_FreshEntry(entry, glyph_name, glyph, layer_name, default_primary) ==
    LET sourced == IF default_primary
                   THEN [DefaultGlyph EXCEPT !.codepoints = glyph.codepoints,
                                             !.set = categorize_glyph(glyph_name, glyph)]
                   ELSE DefaultGlyph
    IN  [sourced EXCEPT !.layers = Put(sourced.layers, layer_name, Layer_from(glyph))]

\* import_ufo_sources, one glyph of one layer: entry is the project's glyph, a
\* default Glyph if it had none; default_primary says that the layer is the
\* default layer of the default source
import_ufo_sources_glyph(entry, glyph_name, glyph, layer_name, default_primary) ==
    LET sourced == IF default_primary
                   THEN [entry EXCEPT !.codepoints = glyph.codepoints,
                                      !.set = IF entry.set = None
                                              THEN categorize_glyph(glyph_name, glyph)
                                              ELSE entry.set]
                   ELSE entry
    IN  [sourced EXCEPT !.layers = Put(sourced.layers, layer_name, Layer_from(glyph))]

\* import_ufo_sources, the layers of one source from the li-th on
RECURSIVE import_ufo_sources_layers(_, _, _, _, _)
import_ufo_sources_layers(glyphs, source_name, source, is_default, li) ==
    IF li > Len(source.layers) THEN glyphs
    ELSE LET layer == source.layers[li].glyphs
             layer_name == layer_name_of(source_name, source, li)
             merged ==
                 [n \in DOMAIN glyphs \cup DOMAIN layer |->
                     IF n \in DOMAIN layer
                     THEN import_ufo_sources_glyph(
                              IF n \in DOMAIN glyphs THEN glyphs[n] ELSE DefaultGlyph,
                              n, layer[n], layer_name, is_default /\ li = 1)
                     ELSE glyphs[n]]
         IN  import_ufo_sources_layers(merged, source_name, source, is_default, li + 1)

\* import_ufo_sources, the sources from the i-th of the HashMap's order on
RECURSIVE import_ufo_sources_loop(_, _, _, _, _)
import_ufo_sources_loop(glyphs, source_by_name, default_source, order, i) ==
    IF i > Len(order) THEN glyphs
    ELSE import_ufo_sources_loop(
             import_ufo_sources_layers(glyphs, order[i], source_by_name[order[i]],
                                       order[i] = default_source, 1),
             source_by_name, default_source, order, i + 1)

\* public.postscriptNames applied with a glyph inserted for every name the
\* project does not hold
apply_postscript_names_Inserting(glyphs, default_source) ==
    LET names == IF PostscriptNamesKey \in DOMAIN default_source.lib
                 THEN as_dictionary(default_source.lib[PostscriptNamesKey])
                 ELSE None
    IN  IF names = None THEN glyphs
        ELSE [g \in DOMAIN glyphs \cup DOMAIN Unwrap(names) |->
                 IF g \in DOMAIN Unwrap(names)
                 THEN [(IF g \in DOMAIN glyphs THEN glyphs[g] ELSE DefaultGlyph)
                          EXCEPT !.postscript_name = as_string(Unwrap(names)[g])]
                 ELSE glyphs[g]]

\* the default source's public.postscriptNames applied to the glyphs it names
apply_postscript_names(glyphs, default_source) ==
    LET names == IF PostscriptNamesKey \in DOMAIN default_source.lib
                 THEN as_dictionary(default_source.lib[PostscriptNamesKey])
                 ELSE None
    IN  IF names = None THEN glyphs
        ELSE [g \in DOMAIN glyphs |->
                 IF g \in DOMAIN Unwrap(names)
                 THEN [glyphs[g] EXCEPT !.postscript_name = as_string(Unwrap(names)[g])]
                 ELSE glyphs[g]]

\* a category name parsed, the default for one that does not parse
parse_or_default(text) ==
    IF OpenTypeCategory_from_str(text) = None THEN "Unassigned"
    ELSE Unwrap(OpenTypeCategory_from_str(text))

\* the default source's public.openTypeCategories applied to the glyphs it names
apply_opentype_categories(glyphs, default_source) ==
    LET names == IF OpenTypeCategoriesKey \in DOMAIN default_source.lib
                 THEN as_dictionary(default_source.lib[OpenTypeCategoriesKey])
                 ELSE None
    IN  IF names = None THEN glyphs
        ELSE [g \in DOMAIN glyphs |->
                 IF g \in DOMAIN Unwrap(names)
                 THEN [glyphs[g] EXCEPT !.opentype_category =
                          IF as_string(Unwrap(names)[g]) = None THEN "Unassigned"
                          ELSE parse_or_default(Unwrap(as_string(Unwrap(names)[g])))]
                 ELSE glyphs[g]]

\* Fontgarden::import_ufo_sources on a project holding glyphs, the sources
\* already loaded; order is the order the HashMap yields the sources in
import_ufo_sources(glyphs, source_by_name, order) ==
    LET default_source == default_source_of(source_by_name, order)
        layered == import_ufo_sources_loop(glyphs, source_by_name, default_source, order, 1)
    IN  apply_opentype_categories(
            apply_postscript_names(layered, source_by_name[default_source]),
            source_by_name[default_source])

\* import_ufos_into_fontgarden, one glyph of one layer: every layer of the
\* default source sets the codepoints and the set
import_ufos_into_fontgarden_glyph(entry, glyph_name, glyph, layer_name, from_default) ==
    LET sourced == IF from_default
                   THEN [entry EXCEPT !.codepoints = glyph.codepoints,
                                      !.set = categorize_glyph(glyph_name, glyph)]
                   ELSE entry
    IN  [sourced EXCEPT !.layers = Put(sourced.layers, layer_name, Layer_from(glyph))]

\* import_ufos_into_fontgarden, the layers of one source from the li-th on
RECURSIVE import_ufos_into_fontgarden_layers(_, _, _, _, _)
import_ufos_into_fontgarden_layers(glyphs, source_name, source, is_default, li) ==
    IF li > Len(source.layers) THEN glyphs
    ELSE LET layer == source.layers[li].glyphs
             layer_name == layer_name_of(source_name, source, li)
             merged ==
                 [n \in DOMAIN glyphs \cup DOMAIN layer |->
                     IF n \in DOMAIN layer
                     THEN import_ufos_into_fontgarden_glyph(
                              IF n \in DOMAIN glyphs THEN glyphs[n] ELSE DefaultGlyph,
                              n, layer[n], layer_name, is_default)
                     ELSE glyphs[n]]
         IN  import_ufos_into_fontgarden_layers(merged, source_name, source, is_default, li + 1)

\* import_ufos_into_fontgarden, the sources from the i-th of the HashMap's order on
RECURSIVE import_ufos_into_fontgarden_loop(_, _, _, _, _)
import_ufos_into_fontgarden_loop(glyphs, source_by_name, default_source, order, i) ==
    IF i > Len(order) THEN glyphs
    ELSE import_ufos_into_fontgarden_loop(
             import_ufos_into_fontgarden_layers(glyphs, order[i], source_by_name[order[i]],
                                                order[i] = default_source, 1),
             source_by_name, default_source, order, i + 1)

\* import_ufos_into_fontgarden: a new project from the loaded sources
import_ufos_into_fontgarden(source_by_name, order) ==
    LET default_source == default_source_of(source_by_name, order)
        layered == import_ufos_into_fontgarden_loop(<<>>, source_by_name, default_source,
                                                    order, 1)
    IN  apply_opentype_categories(
            apply_postscript_names(layered, source_by_name[default_source]),
            source_by_name[default_source])
----------------------------------------------------------------------------
(* Export engine: src/src/main.rs (export_ufos_from_fontgarden); the same code *)
(* is Fontgarden::export_ufo_sources of src/src/ufo.rs                         *)

\* serde_json::to_string of a category: its lowercase name as a JSON string,
\* quotes included
serde_json_to_string(category) == <<"\"">> \o CategoryText(category) \o <<"\"">>

\* the first anchor or component of a layer that norad rejects, as the error
\* convert_fontgarden_layer_to_ufo_glyph returns; None if it accepts them all
conversion_error(glyph_name, layer) ==
    IF \E i \in 1..Len(layer.anchors) : Anchor_try_into(layer.anchors[i]) = None
    THEN Some([ok |-> FALSE, err |-> "AnchorNamingError", args |-> <<glyph_name>>])
    ELSE IF \E i \in 1..Len(layer.components) :
                Component_try_into(layer.components[i]) = None
    THEN Some([ok |-> FALSE, err |-> "ComponentNamingError", args |-> <<glyph_name>>])
    ELSE None

\* convert_fontgarden_layer_to_ufo_glyph of a layer it accepts; glyph is
\* Some(glyph) for a primary layer and None for any other
convert_fontgarden_layer_to_ufo_glyph(glyph, layer) ==
    LET vertical == layer.y_advance # None /\ layer.vertical_origin # None
    IN  [codepoints |-> IF glyph = None THEN <<>> ELSE Unwrap(glyph).codepoints,
         width |-> IF layer.x_advance = None THEN 0 ELSE Unwrap(layer.x_advance),
         height |-> IF vertical THEN Unwrap(layer.y_advance) ELSE 0,
         lib |-> IF vertical
                 THEN [k \in {VerticalOriginKey} |->
                          [type |-> "real", value |-> Unwrap(layer.vertical_origin)]]
                 ELSE <<>>,
         anchors |->
             [i \in 1..Len(layer.anchors) |-> Unwrap(Anchor_try_into(layer.anchors[i]))],
         contours |-> [i \in 1..Len(layer.contours) |-> Contour_into(layer.contours[i])],
         components |->
             [i \in 1..Len(layer.components) |->
                 Unwrap(Component_try_into(layer.components[i]))]]

\* the layers of a glyph the style filter lets through
filtered_layers(glyph, source_names) ==
    {l \in DOMAIN glyph.layers : source_names = {} \/ l \in source_names}

\* the source a layer is exported into: the layer name before the first '.'
base_of(layer_name) ==
    IF split_once(layer_name) = None THEN layer_name ELSE Unwrap(split_once(layer_name))[1]

\* the layer of that source it is exported into: None for the default layer
suffix_of(layer_name) ==
    IF split_once(layer_name) = None THEN None ELSE Some(Unwrap(split_once(layer_name))[2])

\* every layer that export creates beside the default layers
created_layers(glyphs, source_names) ==
    UNION {suffix_of(l) : l \in UNION {filtered_layers(glyphs[g], source_names) :
                                          g \in DOMAIN glyphs}}

\* the errors export can stop with: that of the first glyph or layer, in the
\* order the HashMaps yield them, that norad rejects
export_errors(glyphs, source_names) ==
    {[ok |-> FALSE, err |-> "GlyphNamingError", args |-> <<g>>] :
        g \in {n \in DOMAIN glyphs : ~NameIsValid(n)}}
    \cup UNION {UNION {conversion_error(g, glyphs[g].layers[l]) :
                          l \in filtered_layers(glyphs[g], source_names)} :
                   g \in DOMAIN glyphs}
    \cup {[ok |-> FALSE, err |-> "GlyphNamingError", args |-> <<s>>] :
             s \in {t \in created_layers(glyphs, source_names) : ~NameIsValid(t)}}

\* one exported source: the glyphs of its default layer, its other layers in
\* the order they were created, its style name and the two dictionaries
exported_source(glyphs, source_names, style, layer_order, lib) ==
    LET exports(suffix) ==
            {g \in DOMAIN glyphs :
                \E l \in filtered_layers(glyphs[g], source_names) :
                    base_of(l) = style /\ suffix_of(l) = suffix}
        key(suffix) == IF suffix = None THEN style ELSE style \o <<".">> \o Unwrap(suffix)
        layer(suffix) ==
            [name |-> IF suffix = None THEN PublicDefault ELSE Unwrap(suffix),
             glyphs |-> [g \in exports(suffix) |->
                            convert_fontgarden_layer_to_ufo_glyph(
                                IF suffix = None THEN Some(glyphs[g]) ELSE None,
                                glyphs[g].layers[key(suffix)])]]
        others == SelectSeq(layer_order, LAMBDA s : exports(Some(s)) # {})
    IN  [style_name |-> Some(style),
         layers |-> <<layer(None)>> \o [i \in 1..Len(others) |-> layer(Some(others[i]))],
         lib |-> lib]

\* export_ufos_from_fontgarden: the results it can return for the style filter
\* source_names, the layers beside the default ones created in layer_order
export_ufos_from_fontgarden(glyphs, source_names, layer_order) ==
    LET primary == {g \in DOMAIN glyphs :
                       \E l \in filtered_layers(glyphs[g], source_names) :
                           split_once(l) = None}
        postscript_names ==
            [g \in {n \in primary : glyphs[n].postscript_name # None} |->
                [type |-> "string", value |-> Unwrap(glyphs[g].postscript_name)]]
        opentype_categories ==
            [g \in {n \in primary : glyphs[n].opentype_category # "Unassigned"} |->
                [type |-> "string",
                 value |-> serde_json_to_string(glyphs[g].opentype_category)]]
        keys == {k \in {PostscriptNamesKey} : DOMAIN postscript_names # {}}
                \cup {k \in {OpenTypeCategoriesKey} : DOMAIN opentype_categories # {}}
        lib == [k \in keys |->
                   [type |-> "dictionary",
                    value |-> IF k = PostscriptNamesKey THEN postscript_names
                              ELSE opentype_categories]]
        styles == {base_of(l) : l \in UNION {filtered_layers(glyphs[g], source_names) :
                                                g \in DOMAIN glyphs}}
    IN  IF export_errors(glyphs, source_names) # {}
        THEN export_errors(glyphs, source_names)
        ELSE {[ok |-> TRUE,
               ufos |-> [s \in styles |->
                            exported_source(glyphs, source_names, s, layer_order, lib)]]}
----------------------------------------------------------------------------
(* Selective import: the diff engine.  Fontgarden::load_glyphs_selectively_and_follow *)
(* of src/src/structs.rs has no body; the definitions of this section follow   *)
(* the specification of the engine, and the merge it applies is                *)
(* Fontgarden::import_ufo_sources of src/src/ufo.rs.                           *)

\* import_set: the glyph names in any layer of any source being imported
import_set(source_by_name) ==
    UNION {UNION {DOMAIN source_by_name[s].layers[li].glyphs :
                     li \in 1..Len(source_by_name[s].layers)} :
              s \in DOMAIN source_by_name}

\* all_glyphs_set: the glyph names of the project
all_glyphs_set(glyphs) == DOMAIN glyphs

\* the glyphs that the components of a glyph name, over all of its layers
component_bases(glyph) ==
    UNION {{glyph.layers[l].components[i].name : i \in 1..Len(glyph.layers[l].components)} :
              l \in DOMAIN glyph.layers}

\* one round of following references and no more
follow_references_OneRound(glyphs, set) ==
    set \cup {b \in DOMAIN glyphs : \E g \in set : b \in component_bases(glyphs[g])}

\* follow references: add the stored glyphs that a glyph of the set names as
\* a component, until no glyph is added
RECURSIVE follow_references(_, _)
follow_references(glyphs, set) ==
    LET referenced == {b \in DOMAIN glyphs : \E g \in set : b \in component_bases(glyphs[g])}
    IN  IF referenced \subseteq set THEN set
        ELSE follow_references(glyphs, set \cup referenced)

\* reference_set: every glyph without target sets, else the glyphs of the
\* target sets ("Common" for a glyph without a set) and what they refer to
reference_set(glyphs, sets) ==
    IF sets = {} THEN all_glyphs_set(glyphs)
    ELSE follow_references(glyphs, {g \in DOMAIN glyphs : SetNameOf(glyphs[g]) \in sets})

\* the diff of an import against the project
glyph_diff(glyphs, source_by_name, sets) ==
    [import_set |-> import_set(source_by_name),
     all_glyphs_set |-> all_glyphs_set(glyphs),
     reference_set |-> reference_set(glyphs, sets),
     added |-> import_set(source_by_name) \ all_glyphs_set(glyphs),
     modified |-> reference_set(glyphs, sets) \cap import_set(source_by_name),
     removed |-> reference_set(glyphs, sets) \ import_set(source_by_name)]

\* a layer name is the key of a layer of the style: the style's primary layer
\* or "<style>.<layer>"
belongs_to_style(layer_name, style) ==
    \/ layer_name = style
    \/ /\ Len(layer_name) > Len(style)
       /\ SubSeq(layer_name, 1, Len(style) + 1) = style \o <<".">>

\* a glyph without its layers of the styles given
without_layers_of(glyph, styles) ==
    [glyph EXCEPT !.layers =
        Restrict(glyph.layers,
                 {l \in DOMAIN glyph.layers : \A s \in styles : ~belongs_to_style(l, s)})]

\* the selective import: the sources are merged into the project, the removed
\* glyphs lose their layers of the imported styles, and with exactly one
\* target set the added glyphs are put into it
selective_import(glyphs, source_by_name, order, sets) ==
    LET changes == glyph_diff(glyphs, source_by_name, sets)
        merged == import_ufo_sources(glyphs, source_by_name, order)
    IN  [g \in DOMAIN merged |->
            IF g \in changes.removed THEN without_layers_of(merged[g], DOMAIN source_by_name)
            ELSE IF g \in changes.added /\ Cardinality(sets) = 1
                 THEN [merged[g] EXCEPT !.set = Some(CHOOSE s \in sets : TRUE)]
                 ELSE merged[g]]
----------------------------------------------------------------------------
(* Fontgarden::save step by step: each filesystem call is a step that can    *)
(* fail, and the glyphs are written by parallel tasks (par_iter)            *)

\* the name a filesystem knows a file by: case folded on a filesystem that is
\* case-preserving but case-insensitive
Canon(folds, f) == IF folds THEN Fold(f) ELSE f

\* create_dir(path) after the removal: an empty directory
create_dir == [is_dir |-> TRUE, files |-> <<>>, glyphs |-> <<>>]

\* the sets that get a manifest: the keys of glyphs_by_set
glyphs_by_set(glyphs) == {SetNameOf(glyphs[n]) : n \in DOMAIN glyphs}

\* csv::Writer::from_path, serialize and flush of the manifest of one set
write_manifest(d, folds, glyphs, set_name) ==
    [d EXCEPT !.files = Put(d.files, Canon(folds, SetInfoPath(set_name)),
                            ManifestRows(glyphs, set_name))]

\* the parallel tasks of save: one per glyph that is not empty, which creates
\* the glyph's directory and then writes the glyph's non-empty layers
save_tasks(glyphs) ==
    [n \in {m \in DOMAIN glyphs : ~Glyph_is_empty(glyphs[m])} |->
        [started |-> FALSE,
         layers |-> {l \in DOMAIN glyphs[n].layers : ~Layer_is_empty(glyphs[n].layers[l])}]]

\* std::fs::create_dir_all(this_glyph_dir): a directory that exists is kept
create_dir_all(d, folds, glyph_name) ==
    IF Canon(folds, name_to_filename(glyph_name)) \in DOMAIN d.glyphs THEN d
    ELSE [d EXCEPT !.glyphs = Put(d.glyphs, Canon(folds, name_to_filename(glyph_name)), <<>>)]

\* File::create(layer_path) and serde_json::to_writer_pretty: the file is
\* created or truncated and the layer written
write_layer(d, folds, glyph_name, layer_name, layer) ==
    [d EXCEPT !.glyphs[Canon(folds, name_to_filename(glyph_name))] =
                  Put(@, Canon(folds, LayerFilename(layer_name)), LayerToJson(layer))]

\* a call whose failure is not passed on
call_result_Ignored(fails, err, args) == [ok |-> TRUE]

\* `call.map_err(...)?`: the error save returns when the call fails
call_result(fails, err, args) ==
    IF fails THEN [ok |-> FALSE, err |-> err, args |-> args] ELSE [ok |-> TRUE]

\* try_for_each: the error of the batch is the first one a task returned
first_error(result, error) == IF result = [ok |-> TRUE] THEN error ELSE result

\* a task without a step left
TaskDone(task) == task.started /\ task.layers = {}

\* the tasks without glyph_name
WithoutTask(tasks, glyph_name) == [n \in DOMAIN tasks \ {glyph_name} |-> tasks[n]]
----------------------------------------------------------------------------
(* Inputs of the storage engine *)

\* a layer with an advance, a transformed component and a one-point contour
OutlineLayer ==
    [anchors |-> <<[name |-> <<"t", "o", "p">>, x |-> 250, y |-> 700]>>,
     components |-> <<[name |-> <<"a">>,
                       transformation |-> [IdentityTransformation EXCEPT !.x_offset = 20]]>>,
     contours |-> <<[points |-> <<[x |-> 0, y |-> 0, typ |-> "Line", smooth |-> FALSE]>>]>>,
     vertical_origin |-> None, x_advance |-> Some(500), y_advance |-> None]

\* the glyphs a caller can put into Fontgarden.glyphs (its fields are public)
BuiltGlyphs ==
    LET layers == {<<>>,
                   [l \in {Regular} |-> DefaultLayer],
                   [l \in {Regular, Bold \o <<".">> \o Background} |->
                       IF l = Regular THEN OutlineLayer ELSE DefaultLayer]}
        postscript_name == {None, Some(<<>>), Some(<<"a">>)}
        set == {None, Some(Common), Some(Test)}
    IN  [codepoints : {<<>>}, layers : layers, opentype_category : {"Unassigned"},
         postscript_name : postscript_name, set : set]
        \cup
        [codepoints : {<<97, 128512>>}, layers : layers, opentype_category : {"Base"},
         postscript_name : postscript_name, set : set]

BuiltGlyphNames == {<<"a">>, <<"A">>}

BuiltGardens == UNION {[names -> BuiltGlyphs] : names \in SUBSET BuiltGlyphNames}

\* manifest rows as they may stand in a directory that was edited or merged by hand
RowPool ==
    {[name |-> <<"a">>, postscript_name |-> <<>>,
      codepoints |-> <<"0", "0", "6", "1">>, opentype_category |-> <<"unassigned">>],
     [name |-> <<"a">>, postscript_name |-> <<>>,
      codepoints |-> <<"0", "0", "G", "1">>, opentype_category |-> <<"unassigned">>],
     [name |-> <<"x">>, postscript_name |-> <<"x">>,
      codepoints |-> <<"1", "f", "6", "0", "0", " ", "0", "0", "6", "1">>,
      opentype_category |-> <<"mark">>]}

\* a CSV file of the root that is no set manifest
NotesFile == <<"n", "o", "t", "e", "s", ".", "c", "s", "v">>

\* the contents a manifest can have: at most MaxRows rows
ManifestPool == SeqsUpTo(RowPool, MaxRows)

\* the files a planted root can hold
FilesPool ==
    UNION {[fs -> ManifestPool] : fs \in SUBSET {SetInfoPath(Common), SetInfoPath(Test)}}

\* with or without the file that is no manifest
WithNotes(files) ==
    {files, [f \in DOMAIN files \cup {NotesFile} |->
                IF f = NotesFile THEN SeqsUpTo(RowPool, 0) ELSE files[f]]}

\* a layer with a height and no vertical origin, as a payload edited by hand or
\* written by another tool can hold it
TallLayer == [DefaultLayer EXCEPT !.y_advance = Some(1000)]

\* glyph directories of a planted root: none; the directory of "a" with two
\* payloads and a file that is no payload; a directory of a glyph no manifest
\* names beside a directory of "x" with a malformed payload
GlyphDirsPool ==
    {<<>>,
     [d \in {name_to_filename(<<"a">>)} |->
        [f \in {LayerFilename(Regular), LayerFilename(Bold), <<"n", "o", "t", "e", "s">>} |->
            IF f = LayerFilename(Regular) THEN LayerToJson(OutlineLayer)
            ELSE IF f = LayerFilename(Bold) THEN LayerToJson(TallLayer)
            ELSE [garbage |-> TRUE]]],
     [d \in {name_to_filename(<<"x">>), name_to_filename(<<"b">>)} |->
        IF d = name_to_filename(<<"x">>)
        THEN [f \in {LayerFilename(Bold)} |-> [garbage |-> TRUE]]
        ELSE [f \in {LayerFilename(Regular)} |-> LayerToJson(OutlineLayer)]]}

PlantedDisks ==
    {NoDirectory} \cup
    {[is_dir |-> TRUE, files |-> fs, glyphs |-> ds] :
        fs \in UNION {WithNotes(f) : f \in FilesPool}, ds \in GlyphDirsPool}

----------------------------------------------------------------------------
(* Inputs of the merge engine *)

Sketch == <<"s", "k", "e", "t", "c", "h">>
BoldBackground == Bold \o <<".">> \o Background

\* a norad::Glyph with an outline, a named anchor and the codepoints given
UfoOutline(codepoints) ==
    [codepoints |-> codepoints, width |-> 500, height |-> 0, lib |-> <<>>,
     anchors |-> <<[name |-> Some(<<"t", "o", "p">>), x |-> 250, y |-> 700]>>,
     contours |-> <<[points |-> <<[x |-> 0, y |-> 0, typ |-> "line", smooth |-> TRUE]>>]>>,
     components |-> <<>>]

\* a norad::Glyph with a component and vertical metrics, its vertical origin a
\* real number
UfoComposite ==
    [codepoints |-> <<>>, width |-> 0, height |-> 1000,
     lib |-> [k \in {VerticalOriginKey} |-> [type |-> "real", value |-> 880]],
     anchors |-> <<>>, contours |-> <<>>,
     components |-> <<[base |-> <<"A">>,
                       transform |-> [IdentityTransformation EXCEPT !.x_offset = 20]]>>]

\* a norad::Glyph whose vertical origin is an integer and whose anchor has no name
UfoUnnamed ==
    [codepoints |-> <<>>, width |-> 600, height |-> 1000,
     lib |-> [k \in {VerticalOriginKey} |-> [type |-> "integer", value |-> 880]],
     anchors |-> <<[name |-> None, x |-> 0, y |-> 0]>>, contours |-> <<>>,
     components |-> <<>>]

StringValue(text) == [type |-> "string", value |-> text]
DictionaryValue(entries) == [type |-> "dictionary", value |-> entries]

\* what a source can hold beside its style name
SourceBodies ==
    {\* one layer, no dictionaries
     [layers |-> <<[name |-> PublicDefault,
                    glyphs |-> [g \in {<<"A">>} |-> UfoOutline(<<65>>)]]>>,
      lib |-> <<>>],
     \* a background and a sketch layer, an alias and categories; "x" has a
     \* codepoint in the default layer only
     [layers |-> <<[name |-> PublicDefault,
                    glyphs |-> [g \in {<<"A">>, <<"B">>, <<"x">>} |->
                                   IF g = <<"A">> THEN UfoOutline(<<65, 97>>)
                                   ELSE IF g = <<"x">> THEN UfoOutline(<<97>>)
                                   ELSE UfoComposite]],
                   [name |-> PublicBackground,
                    glyphs |-> [g \in {<<"A">>, <<"x">>} |-> UfoOutline(<<>>)]],
                   [name |-> Sketch,
                    glyphs |-> [g \in {<<"a", ".", "s", "c">>} |-> UfoOutline(<<>>)]]>>,
      lib |-> [k \in {PostscriptNamesKey, OpenTypeCategoriesKey} |->
                  IF k = PostscriptNamesKey
                  THEN DictionaryValue([g \in {<<"A">>} |-> StringValue(<<"A", ".", "x">>)])
                  ELSE DictionaryValue([g \in {<<"A">>, <<"B">>} |->
                           IF g = <<"A">> THEN StringValue(<<"base">>)
                           ELSE StringValue(<<"bogus">>)])]],
     \* an anchor without a name, an empty alias, an alias that is no string,
     \* categories that are no dictionary
     [layers |-> <<[name |-> PublicDefault,
                    glyphs |-> [g \in {<<"a", ".", "s", "c">>, <<"B">>} |->
                                   IF g = <<"B">> THEN UfoUnnamed
                                   ELSE UfoOutline(<<128512>>)]]>>,
      lib |-> [k \in {PostscriptNamesKey, OpenTypeCategoriesKey} |->
                  IF k = PostscriptNamesKey
                  THEN DictionaryValue([g \in {<<"a", ".", "s", "c">>, <<"A">>} |->
                           IF g = <<"A">> THEN [type |-> "integer", value |-> 1]
                           ELSE StringValue(<<>>)])
                  ELSE StringValue(<<"base">>)]]}

\* the style names of sources: none, "Bold", and one with a '.'
StyleNames == {None, Some(Bold), Some(BoldBackground)}

\* a source whose style name is the name the background layer of a source
\* "Regular" is stored under; its "A" is a composite
ShadowSource ==
    [style_name |-> Some(Regular \o <<".">> \o Background),
     layers |-> <<[name |-> PublicDefault,
                   glyphs |-> [g \in {<<"A">>} |-> UfoComposite]]>>,
     lib |-> <<>>]

SourcePool ==
    {[style_name |-> s, layers |-> b.layers, lib |-> b.lib] :
        s \in StyleNames, b \in SourceBodies}
    \cup {ShadowSource}

\* the sources given to one import: at least one, at most MaxSources
SourceLists == SeqsUpTo(SourcePool, MaxSources) \ {<<>>}

\* the style filters given to an export
SourceNameFilters == {{}, {Bold}}
----------------------------------------------------------------------------
(* Inputs of the selective import *)

\* a stored layer whose components name the glyphs given
ComposedOf(bases) ==
    [DefaultLayer EXCEPT
        !.components = [i \in 1..Len(bases) |->
                           [name |-> bases[i], transformation |-> IdentityTransformation]],
        !.x_advance = Some(500)]

\* a stored glyph of a set with the layers given
StoredGlyph(set, layers) == [DefaultGlyph EXCEPT !.set = set, !.layers = layers]

\* the glyphs a stored project can hold under each name: "A" refers to "B" or
\* to itself, "B" refers to "C" from a background layer or back to "A" and to
\* a glyph that is not stored, "C" refers to nothing
StoredVariants(glyph_name) ==
    CASE glyph_name = <<"A">> ->
            {StoredGlyph(Some(Latin),
                         [l \in {Regular, Bold} |->
                             IF l = Regular THEN ComposedOf(<<<<"B">>>>)
                             ELSE ComposedOf(<<>>)]),
             StoredGlyph(None, [l \in {Regular} |-> ComposedOf(<<<<"A">>>>)])}
      [] glyph_name = <<"B">> ->
            {StoredGlyph(None,
                         [l \in {Regular, BoldBackground} |->
                             IF l = Regular THEN ComposedOf(<<>>)
                             ELSE ComposedOf(<<<<"C">>>>)]),
             StoredGlyph(Some(Test),
                         [l \in {Bold} |-> ComposedOf(<<<<"A">>, <<"D">>>>)])}
      [] glyph_name = <<"C">> ->
            {StoredGlyph(Some(Test),
                         [l \in {Regular, Bold, Bold \o <<".">> \o Sketch} |->
                             ComposedOf(<<>>)])}

StoredGlyphNames == {<<"A">>, <<"B">>, <<"C">>}

\* the projects a selective import can find stored
StoredGardens ==
    UNION {{glyphs \in [names -> UNION {StoredVariants(n) : n \in names}] :
               \A n \in names : glyphs[n] \in StoredVariants(n)} :
              names \in SUBSET StoredGlyphNames}

\* the target sets it can be given
TargetSetPool == SUBSET {Common, Latin, Test}

\* the sources it can be given: one of style "Regular" with "A", one of style
\* "Bold" with "A", "B" and "a.sc", one of style "Bold.background" with "A"
DiffSourcePool ==
    {f \in SourcePool :
        \/ f.style_name = Some(Bold) /\ Len(f.layers) > 1
        \/ f.style_name # Some(Bold) /\ f.lib = <<>>}

DiffSourceLists == SeqsUpTo(DiffSourcePool, MaxSources) \ {<<>>}

\* what a path can hold before a project is saved to it: the directory of a
\* stored project, with a file and a glyph directory that no save wrote
EarlierDisks ==
    {[is_dir |-> TRUE,
      files |-> [f \in DOMAIN save(g).files \cup {NotesFile} |->
                    IF f = NotesFile THEN <<>> ELSE save(g).files[f]],
      glyphs |-> [d \in DOMAIN save(g).glyphs \cup {name_to_filename(<<"x">>)} |->
                    IF d \in DOMAIN save(g).glyphs THEN save(g).glyphs[d]
                    ELSE [f \in {LayerFilename(Regular)} |-> LayerToJson(OutlineLayer)]]] :
        g \in StoredGardens}
----------------------------------------------------------------------------
(* Inputs of the save in steps *)

\* the glyph saved under each name: "Dz" and "dz" differ in case only and hold
\* different outlines, "a" holds an empty layer next to a drawn one, "A" is empty
StepGlyph(glyph_name) ==
    CASE glyph_name = <<"Dz">> ->
            StoredGlyph(None, [l \in {Regular} |-> OutlineLayer])
      [] glyph_name = <<"dz">> ->
            StoredGlyph(Some(Test),
                        [l \in {Regular, Bold} |->
                            IF l = Regular THEN ComposedOf(<<>>) ELSE OutlineLayer])
      [] glyph_name = <<"a">> ->
            StoredGlyph(None,
                        [l \in {Regular, Bold} |->
                            IF l = Regular THEN ComposedOf(<<>>) ELSE DefaultLayer])
      [] glyph_name = <<"A">> ->
            StoredGlyph(None, <<>>)

StepGlyphNames == {<<"Dz">>, <<"dz">>, <<"a">>, <<"A">>}

\* the projects saved step by step
StepGardens == {[n \in names |-> StepGlyph(n)] : names \in SUBSET StepGlyphNames}

\* what the path holds before the save: nothing, or the directory of an
\* earlier project with a file and a glyph directory of its own
StepDisks ==
    {NoDirectory,
     [is_dir |-> TRUE,
      files |-> Put(<<>>, NotesFile, <<>>),
      glyphs |-> Put(<<>>, <<"x">>, Put(<<>>, LayerFilename(Regular), LayerToJson(OutlineLayer)))]}

\* a file that was created and whose content was not written
TruncatedFile == <<>>
----------------------------------------------------------------------------
(* Specifications *)

CodecOff ==
    /\ name = <<>>
    /\ variant = <<>>
    /\ filename = <<>>
    /\ filename2 = <<>>
    /\ roundtripped = <<>>
    /\ cpc = "off"

StoreOff ==
    /\ garden = <<>>
    /\ disk = NoDirectory
    /\ loaded = NotLoaded
    /\ readOrder = <<>>
    /\ replaced = NoDirectory

NotRun == [ok |-> FALSE, err |-> "NotRun", args |-> <<>>]

DiffOff ==
    /\ target_sets = {}
    /\ diff = NotRun
    /\ updated = NotRun

MergeOff ==
    /\ sources = <<>>
    /\ engine = "none"
    /\ mpc = "off"
    /\ style_filter = {}
    /\ exported = NotRun
    /\ remerged = NotRun
    /\ merge_error = None
    /\ first_default = None
    /\ merged_twice = NotRun

StepOff ==
    /\ fs_folds = FALSE
    /\ spc = "off"
    /\ pending = [manifests |-> {}, tasks |-> <<>>, error |-> [ok |-> TRUE]]
    /\ save_result = NotRun
    /\ io_failed = FALSE

CodecStart ==
    /\ name \in SeqsUpTo(Chars, MaxLen)
    /\ variant \in CaseVariants(name)
    /\ filename = <<>>
    /\ filename2 = <<>>
    /\ roundtripped = <<>>
    /\ cpc = "start"

CodecInit == CodecStart /\ StoreOff /\ MergeOff /\ DiffOff /\ StepOff

Encode ==
    /\ cpc = "start"
    /\ filename' = name_to_filename(name)
    /\ filename2' = name_to_filename(variant)
    /\ cpc' = "encoded"
    /\ UNCHANGED <<name, variant, roundtripped>>
    /\ UNCHANGED storeVars
    /\ UNCHANGED mergeVars
    /\ UNCHANGED diffVars
    /\ UNCHANGED stepVars

Decode ==
    /\ cpc = "encoded"
    /\ roundtripped' = filename_to_name(filename)
    /\ cpc' = "decoded"
    /\ UNCHANGED <<name, variant, filename, filename2>>
    /\ UNCHANGED storeVars
    /\ UNCHANGED mergeVars
    /\ UNCHANGED diffVars
    /\ UNCHANGED stepVars

CodecNext == Encode \/ Decode

\* the codec applied to every name of at most MaxLen characters
SpecCodec == CodecInit /\ [][CodecNext]_vars

\* fontgarden.save(path), of a project built in memory or merged from sources
Save ==
    /\ mpc \in {"off", "merged"}
    /\ disk' = save_at(disk, garden)
    /\ replaced' = disk
    /\ loaded' = NotLoaded
    /\ readOrder' = <<>>
    /\ UNCHANGED garden
    /\ UNCHANGED codecVars
    /\ UNCHANGED mergeVars
    /\ UNCHANGED diffVars
    /\ UNCHANGED stepVars

\* Fontgarden::load(path), once per state of the directory
Load ==
    /\ mpc \in {"off", "merged"}
    /\ loaded = NotLoaded
    /\ \E order \in Perms(DOMAIN disk.files) :
          /\ loaded' \in load(disk, order)
          /\ readOrder' = order
    /\ UNCHANGED <<garden, disk, replaced>>
    /\ UNCHANGED codecVars
    /\ UNCHANGED mergeVars
    /\ UNCHANGED diffVars
    /\ UNCHANGED stepVars

StoreInit ==
    /\ StepOff
    /\ CodecOff
    /\ MergeOff
    /\ DiffOff
    /\ garden \in BuiltGardens
    /\ disk = NoDirectory
    /\ loaded = NotLoaded
    /\ readOrder = <<>>
    /\ replaced = NoDirectory

StoreNext == Save \/ Load

\* a Fontgarden built in memory, saved and loaded
SpecStore == StoreInit /\ [][StoreNext]_vars

LoadInit ==
    /\ StepOff
    /\ CodecOff
    /\ MergeOff
    /\ DiffOff
    /\ garden = <<>>
    /\ disk \in PlantedDisks
    /\ loaded = NotLoaded
    /\ readOrder = <<>>
    /\ replaced = NoDirectory

\* Fontgarden::load of a directory as it may be found
SpecLoad == LoadInit /\ [][Load]_vars

ResaveInit ==
    /\ StepOff
    /\ CodecOff
    /\ MergeOff
    /\ DiffOff
    /\ garden \in StoredGardens
    /\ disk \in EarlierDisks
    /\ loaded = NotLoaded
    /\ readOrder = <<>>
    /\ replaced = NoDirectory

\* a project saved to a path that holds the directory of another project, and
\* loaded from there
SpecResave == ResaveInit /\ [][StoreNext]_vars


\* the outcome of an import: the project, or the error of load_sources
Imported(loaded_sources, glyphs) ==
    IF loaded_sources.ok THEN [ok |-> TRUE, glyphs |-> glyphs] ELSE loaded_sources

\* import_ufos_into_fontgarden(sources) of main.rs
ImportMain ==
    /\ mpc = "start"
    /\ LET loaded_sources == load_sources(sources)
       IN  IF loaded_sources.ok
           THEN \E order \in Perms(DOMAIN loaded_sources.source_by_name) :
                   /\ garden' = import_ufos_into_fontgarden(loaded_sources.source_by_name,
                                                            order)
                   /\ mpc' = "merged"
                   /\ merge_error' = None
                   /\ first_default' =
                         Some(default_source_of(loaded_sources.source_by_name, order))
           ELSE /\ garden' = garden
                /\ mpc' = "failed"
                /\ merge_error' = Some(loaded_sources)
                /\ first_default' = None
    /\ engine' = "main.rs"
    /\ UNCHANGED <<disk, loaded, readOrder, replaced, sources, style_filter, exported,
                 remerged, merged_twice>>
    /\ UNCHANGED codecVars
    /\ UNCHANGED diffVars
    /\ UNCHANGED stepVars

\* Fontgarden::new().import_ufo_sources(sources) of ufo.rs
ImportUfo ==
    /\ mpc = "start"
    /\ LET loaded_sources == load_sources(sources)
       IN  IF loaded_sources.ok
           THEN \E order \in Perms(DOMAIN loaded_sources.source_by_name) :
                   /\ garden' = import_ufo_sources(garden, loaded_sources.source_by_name,
                                                   order)
                   /\ mpc' = "merged"
                   /\ merge_error' = None
                   /\ first_default' =
                         Some(default_source_of(loaded_sources.source_by_name, order))
           ELSE /\ garden' = garden
                /\ mpc' = "failed"
                /\ merge_error' = Some(loaded_sources)
                /\ first_default' = None
    /\ engine' = "ufo.rs"
    /\ UNCHANGED <<disk, loaded, readOrder, replaced, sources, style_filter, exported,
                 remerged, merged_twice>>
    /\ UNCHANGED codecVars
    /\ UNCHANGED diffVars
    /\ UNCHANGED stepVars

\* export_ufos_from_fontgarden(&fontgarden, &source_names), of a merged project
\* that was not saved
Export ==
    /\ mpc = "merged"
    /\ disk = NoDirectory
    /\ \E names \in SourceNameFilters :
          \E layer_order \in Perms(created_layers(garden, names)) :
             /\ style_filter' = names
             /\ exported' \in export_ufos_from_fontgarden(garden, names, layer_order)
    /\ mpc' = "exported"
    /\ UNCHANGED <<sources, engine, remerged, merge_error,
                 first_default, merged_twice>>
    /\ UNCHANGED storeVars
    /\ UNCHANGED codecVars
    /\ UNCHANGED diffVars
    /\ UNCHANGED stepVars

\* the exported sources merged into a new project by the function that merged
\* the first; without a source the merge panics on its unwrap()
Reimport ==
    /\ mpc = "exported"
    /\ exported.ok
    /\ IF DOMAIN exported.ufos = {}
       THEN remerged' = [ok |-> FALSE, err |-> "Panic", args |-> <<>>]
       ELSE \E given \in Perms(DOMAIN exported.ufos), order \in Perms(DOMAIN exported.ufos) :
               LET loaded_sources ==
                       load_sources([i \in 1..Len(given) |-> exported.ufos[given[i]]])
               IN  remerged' =
                       Imported(loaded_sources,
                                IF engine = "main.rs"
                                THEN import_ufos_into_fontgarden(
                                         loaded_sources.source_by_name, order)
                                ELSE import_ufo_sources(
                                         <<>>, loaded_sources.source_by_name, order))
    /\ mpc' = "remerged"
    /\ UNCHANGED <<sources, engine, style_filter, exported, merge_error,
                 first_default, merged_twice>>
    /\ UNCHANGED storeVars
    /\ UNCHANGED codecVars
    /\ UNCHANGED diffVars
    /\ UNCHANGED stepVars

\* the same sources merged a second time, the HashMap yielding them in an
\* order of its own: main.rs builds a new project, ufo.rs merges into the
\* project it is called on
ImportAgain ==
    /\ mpc = "merged"
    /\ disk = NoDirectory
    /\ LET source_by_name == load_sources(sources).source_by_name
       IN  \E order \in Perms(DOMAIN source_by_name) :
              /\ Some(default_source_of(source_by_name, order)) = first_default
              /\ merged_twice' =
                    [ok |-> TRUE,
                     glyphs |-> IF engine = "main.rs"
                                THEN import_ufos_into_fontgarden(source_by_name, order)
                                ELSE import_ufo_sources(garden, source_by_name, order)]
    /\ mpc' = "merged twice"
    /\ UNCHANGED <<sources, engine, style_filter, exported, remerged, merge_error,
                 first_default>>
    /\ UNCHANGED storeVars
    /\ UNCHANGED codecVars
    /\ UNCHANGED diffVars
    /\ UNCHANGED stepVars

MergeInit ==
    /\ StepOff
    /\ CodecOff
    /\ StoreOff
    /\ DiffOff
    /\ sources \in SourceLists
    /\ engine = "none"
    /\ mpc = "start"
    /\ style_filter = {}
    /\ exported = NotRun
    /\ remerged = NotRun
    /\ merge_error = None
    /\ first_default = None
    /\ merged_twice = NotRun

MergeNext ==
    ImportMain \/ ImportUfo \/ Save \/ Load \/ Export \/ Reimport \/ ImportAgain

\* sources merged into a new project, and the project either saved and loaded
\* (tests::roundtrip_save_load) or exported and merged again
\* (tests::roundtrip_export_import)
SpecMerge == MergeInit /\ [][MergeNext]_vars

\* the import command on a stored project, with target sets
SelectiveImport ==
    /\ mpc = "stored"
    /\ LET loaded_sources == load_sources(sources)
       IN  IF loaded_sources.ok
           THEN \E order \in Perms(DOMAIN loaded_sources.source_by_name) :
                   /\ diff' = glyph_diff(garden, loaded_sources.source_by_name, target_sets)
                   /\ updated' = [ok |-> TRUE,
                                  glyphs |-> selective_import(
                                                 garden, loaded_sources.source_by_name,
                                                 order, target_sets)]
                   /\ mpc' = "imported"
           ELSE /\ diff' = diff
                /\ updated' = loaded_sources
                /\ mpc' = "failed"
    /\ engine' = "ufo.rs"
    /\ UNCHANGED <<sources, style_filter, exported, remerged, merge_error, target_sets,
                 first_default, merged_twice>>
    /\ UNCHANGED storeVars
    /\ UNCHANGED codecVars
    /\ UNCHANGED stepVars

\* the updated project saved
SaveUpdated ==
    /\ mpc = "imported"
    /\ disk' = save_at(disk, updated.glyphs)
    /\ replaced' = disk
    /\ mpc' = "saved"
    /\ UNCHANGED <<garden, loaded, readOrder>>
    /\ UNCHANGED <<sources, engine, style_filter, exported, remerged, merge_error,
                 first_default, merged_twice>>
    /\ UNCHANGED diffVars
    /\ UNCHANGED codecVars
    /\ UNCHANGED stepVars

DiffInit ==
    /\ StepOff
    /\ CodecOff
    /\ garden \in StoredGardens
    /\ disk = save(garden)
    /\ loaded = NotLoaded
    /\ readOrder = <<>>
    /\ replaced = NoDirectory
    /\ sources \in DiffSourceLists
    /\ engine = "none"
    /\ mpc = "stored"
    /\ style_filter = {}
    /\ exported = NotRun
    /\ remerged = NotRun
    /\ merge_error = None
    /\ first_default = None
    /\ merged_twice = NotRun
    /\ target_sets \in TargetSetPool
    /\ diff = NotRun
    /\ updated = NotRun

DiffNext == SelectiveImport \/ SaveUpdated

\* a stored project updated from sources, with target sets
SpecDiff == DiffInit /\ [][DiffNext]_vars
----------------------------------------------------------------------------
(* Fontgarden::save, one filesystem call at a time *)

StepFrame ==
    /\ UNCHANGED <<garden, loaded, readOrder, fs_folds>>
    /\ UNCHANGED codecVars
    /\ UNCHANGED mergeVars
    /\ UNCHANGED diffVars

\* save returns with the error given
SaveFails(result) ==
    /\ spc' = "done"
    /\ save_result' = result
    /\ pending' = [pending EXCEPT !.error = result]

\* remove_dir_all of a path that exists, then create_dir
SaveBegin ==
    /\ spc = "start"
    /\ replaced' = disk
    /\ \E fails \in {"none", "remove_dir_all", "create_dir"} :
          LET cleanup == call_result(fails = "remove_dir_all", "Cleanup", <<>>)
              created == call_result(fails = "create_dir", "CreateDir", <<>>)
          IN  /\ fails = "remove_dir_all" => disk.is_dir
              /\ io_failed' = (fails # "none")
              /\ disk' = CASE fails = "remove_dir_all" -> disk
                           [] fails = "create_dir" ->
                                 IF disk.is_dir THEN remove_dir_all(disk) ELSE disk
                           [] OTHER -> create_dir
              /\ IF ~cleanup.ok THEN SaveFails(cleanup)
                 ELSE IF ~created.ok THEN SaveFails(created)
                 ELSE /\ spc' = "writing"
                      /\ pending' = [manifests |-> glyphs_by_set(garden),
                                     tasks |-> save_tasks(garden),
                                     error |-> [ok |-> TRUE]]
                      /\ UNCHANGED save_result
    /\ StepFrame

\* the manifest of one set; the sets are written one after another, in the
\* order of a HashMap, and the first failure returns
SaveManifest ==
    /\ spc = "writing"
    /\ \E set_name \in pending.manifests, fails \in {"none", "from_path", "serialize"} :
          LET written == call_result(fails # "none", "SaveSetData", <<set_name>>)
          IN  /\ io_failed' = (io_failed \/ fails # "none")
              /\ disk' = CASE fails = "from_path" -> disk
                           [] fails = "serialize" ->
                                 [disk EXCEPT !.files =
                                     Put(@, Canon(fs_folds, SetInfoPath(set_name)), TruncatedFile)]
                           [] OTHER -> write_manifest(disk, fs_folds, garden, set_name)
              /\ IF ~written.ok THEN SaveFails(written)
                 ELSE /\ pending' = [pending EXCEPT !.manifests = @ \ {set_name}]
                      /\ UNCHANGED <<spc, save_result>>
    /\ UNCHANGED replaced
    /\ StepFrame

\* a task of the parallel batch is taken up: create_dir_all of its glyph
\* directory; once a task has failed, try_for_each may leave it out instead
SaveGlyphDir ==
    /\ spc \in {"writing", "aborting"}
    /\ pending.manifests = {}
    /\ \E glyph_name \in DOMAIN pending.tasks, outcome \in {"created", "failed", "left out"} :
          LET created == call_result(outcome = "failed", "CreateGlyphDir", <<glyph_name>>)
          IN  /\ ~pending.tasks[glyph_name].started
              /\ outcome = "left out" => spc = "aborting"
              /\ io_failed' = (io_failed \/ outcome = "failed")
              /\ disk' = IF outcome = "created"
                         THEN create_dir_all(disk, fs_folds, glyph_name) ELSE disk
              /\ IF outcome = "left out"
                 THEN /\ pending' = [pending EXCEPT !.tasks = WithoutTask(@, glyph_name)]
                      /\ UNCHANGED spc
                 ELSE IF ~created.ok
                 THEN /\ spc' = "aborting"
                      /\ pending' = [pending EXCEPT
                                        !.tasks = WithoutTask(@, glyph_name),
                                        !.error = first_error(@, created)]
                 ELSE /\ pending' = [pending EXCEPT !.tasks[glyph_name].started = TRUE]
                      /\ UNCHANGED spc
    /\ UNCHANGED <<replaced, save_result>>
    /\ StepFrame

\* a task writes one of its layers: File::create, then to_writer_pretty
SaveLayer ==
    /\ spc \in {"writing", "aborting"}
    /\ \E glyph_name \in DOMAIN pending.tasks,
          fails \in {"none", "create", "to_writer_pretty"} :
          /\ pending.tasks[glyph_name].started
          /\ \E layer_name \in pending.tasks[glyph_name].layers :
                LET written == call_result(fails # "none",
                                           IF fails = "create" THEN "SaveLayer"
                                           ELSE "SaveLayerJson",
                                           <<glyph_name, layer_name>>)
                IN  /\ io_failed' = (io_failed \/ fails # "none")
                    /\ disk' = CASE fails = "create" -> disk
                                 [] fails = "to_writer_pretty" ->
                                       [disk EXCEPT
                                           !.glyphs[Canon(fs_folds, name_to_filename(glyph_name))] =
                                               Put(@, Canon(fs_folds, LayerFilename(layer_name)),
                                                   TruncatedFile)]
                                 [] OTHER -> write_layer(disk, fs_folds, glyph_name, layer_name,
                                                         garden[glyph_name].layers[layer_name])
                    /\ IF ~written.ok
                       THEN /\ spc' = "aborting"
                            /\ pending' = [pending EXCEPT
                                              !.tasks = WithoutTask(@, glyph_name),
                                              !.error = first_error(@, written)]
                       ELSE /\ pending' = [pending EXCEPT
                                              !.tasks[glyph_name].layers = @ \ {layer_name}]
                            /\ UNCHANGED spc
    /\ UNCHANGED <<replaced, save_result>>
    /\ StepFrame

\* every task has ended: `?` on the result of the batch, or Ok(())
SaveReturn ==
    /\ spc \in {"writing", "aborting"}
    /\ pending.manifests = {}
    /\ \A glyph_name \in DOMAIN pending.tasks : TaskDone(pending.tasks[glyph_name])
    /\ spc' = "done"
    /\ save_result' = pending.error
    /\ UNCHANGED <<disk, replaced, pending, io_failed>>
    /\ StepFrame

StepInit ==
    /\ CodecOff
    /\ MergeOff
    /\ DiffOff
    /\ garden \in StepGardens
    /\ disk \in StepDisks
    /\ loaded = NotLoaded
    /\ readOrder = <<>>
    /\ replaced = NoDirectory
    /\ fs_folds \in BOOLEAN
    /\ spc = "start"
    /\ pending = [manifests |-> {}, tasks |-> <<>>, error |-> [ok |-> TRUE]]
    /\ save_result = NotRun
    /\ io_failed = FALSE

StepNext ==
    SaveBegin \/ SaveManifest \/ SaveGlyphDir \/ SaveLayer \/ SaveReturn

\* a project saved to a path, one filesystem call at a time, on a filesystem
\* that keeps or folds the case of names
SpecSaveSteps == StepInit /\ [][StepNext]_vars
----------------------------------------------------------------------------
(* C1: decoding the encoded form of any name gives the name back. *)
C1_Roundtrip == cpc = "decoded" => roundtripped = name

C1_Witness == cpc = "decoded" /\ name = <<"A", "_", "a">> /\ roundtripped = name

(* C2: two names that differ only in letter case have encoded forms that  *)
(* are different, and still different after case folding.                  *)
C2_CaseDistinct ==
    (cpc = "encoded" /\ variant # name) =>
        (filename # filename2 /\ Fold(filename) # Fold(filename2))


----------------------------------------------------------------------------
\* the glyphs all have an empty layer map
MetadataOnly(glyphs) == \A n \in DOMAIN glyphs : DOMAIN glyphs[n].layers = {}

(* C3: a project whose glyphs have no layers is loaded back, after a save, *)
(* as an equal project: same glyph names, codepoints, alias, category, set. *)
C3_MetadataRoundtrip ==
    (loaded # NotLoaded /\ disk.is_dir /\ MetadataOnly(garden)) =>
        (loaded.ok /\ FontgardenEq(loaded.glyphs, garden))

----------------------------------------------------------------------------
\* the set manifests of a directory
Manifests(d) == {f \in DOMAIN d.files : ManifestSetName(f) # None}

\* the glyph names in the rows of a manifest
RowNames(d, f) == {d.files[f][i].name : i \in 1..Len(d.files[f])}

\* some glyph name occurs in the rows of two different set manifests
DuplicateAcrossManifests(d) ==
    \E f1, f2 \in Manifests(d) : f1 # f2 /\ RowNames(d, f1) \cap RowNames(d, f2) # {}

\* every row of every manifest deserializes
AllRowsDeserialize(d) ==
    \A f \in Manifests(d) : \A i \in 1..Len(d.files[f]) : RowDeserializes(d.files[f][i])

\* the load has run on the directory
LoadRan == loaded # NotLoaded /\ disk.is_dir

\* the load has run on the directory and returned the error e
LoadFailedWith(e) == LoadRan /\ ~loaded.ok /\ loaded.err = e

(* C6 as stated: a glyph name in the rows of two manifests makes load fail  *)
(* with the duplicate-glyph error, in whatever order the manifests are read. *)
C6_AlwaysDuplicateError ==
    (LoadRan /\ DuplicateAcrossManifests(disk)) =>
        (~loaded.ok /\ loaded.err = "DuplicateGlyphs")

(* C6 as amended: a glyph name in the rows of two manifests makes load fail *)
(* and return no project, in whatever order the manifests are read; the     *)
(* error is the duplicate-glyph error when every manifest row is well       *)
(* formed, and otherwise it is that error or the manifest-format error of a *)
(* manifest holding a malformed row.                                        *)
C6_DuplicateFailsLoad ==
    (LoadRan /\ DuplicateAcrossManifests(disk)) =>
        /\ ~loaded.ok
        /\ \/ loaded.err = "DuplicateGlyphs"
           \/ /\ loaded.err = "LoadSetData"
              /\ \E i \in 1..Len(disk.files[loaded.args[1]]) :
                    ~RowDeserializes(disk.files[loaded.args[1]][i])
        /\ AllRowsDeserialize(disk) => loaded.err = "DuplicateGlyphs"

C6_Witness ==
    /\ LoadFailedWith("DuplicateGlyphs")
    /\ DuplicateAcrossManifests(disk)
    /\ AllRowsDeserialize(disk)
    /\ Len(readOrder) = 3
    /\ readOrder[3] = SetInfoPath(Common)

\* the position in readOrder of the file whose reading failed the load
FailedAt ==
    CHOOSE i \in 1..Len(readOrder) :
        /\ ~load_metadata(disk.files, SubSeq(readOrder, 1, i), 1, <<>>).ok
        /\ load_metadata(disk.files, SubSeq(readOrder, 1, i - 1), 1, <<>>).ok

\* the set of the manifest in which the glyph was seen again
SeenAgainSet == Unwrap(ManifestSetName(readOrder[FailedAt]))

\* the set of the manifest from which the glyph g was first read
FirstReadSet(g) ==
    LET holding == {i \in 1..Len(readOrder) :
                      /\ ManifestSetName(readOrder[i]) # None
                      /\ g \in RowNames(disk, readOrder[i])}
    IN  Unwrap(ManifestSetName(readOrder[CHOOSE i \in holding : \A j \in holding : i <= j]))

(* C7 as stated: the duplicate-glyph error names both sets involved, the    *)
(* set the glyph was first read from and the set in which it was seen again. *)
C7_NamesBothSets ==
    (LoadFailedWith("DuplicateGlyphs")
        /\ FirstReadSet(loaded.args[2]) # SeenAgainSet) =>
        {FirstReadSet(loaded.args[2]), SeenAgainSet} \subseteq Range(loaded.args)

(* C7 as amended: the duplicate-glyph error names the set in which the      *)
(* glyph was seen again (the manifest being read) and the glyph; the set    *)
(* the glyph was first read from is not part of the error.                  *)
C7_NamesSetAndGlyph ==
    LoadFailedWith("DuplicateGlyphs") =>
        /\ loaded.args = <<SeenAgainSet, loaded.args[2]>>
        /\ loaded.args[2] \in RowNames(disk, readOrder[FailedAt])
        /\ \/ FirstReadSet(loaded.args[2]) # SeenAgainSet
           \/ Cardinality({i \in 1..Len(disk.files[readOrder[FailedAt]]) :
                  disk.files[readOrder[FailedAt]][i].name = loaded.args[2]}) > 1

C7_Witness ==
    /\ LoadFailedWith("DuplicateGlyphs")
    /\ FirstReadSet(loaded.args[2]) = Test
    /\ SeenAgainSet = Common
    /\ loaded.args = <<Common, <<"a">> >>

----------------------------------------------------------------------------
(* C4: a project merged from one or more sources into an empty project is   *)
(* loaded back, after a save, as an equal project: every glyph with its     *)
(* metadata, every layer name and every layer payload.                      *)
C4_MergedRoundtrip ==
    (mpc = "merged" /\ LoadRan) => (loaded.ok /\ FontgardenEq(loaded.glyphs, garden))

(* C5: a project merged from one or more sources into an empty project is   *)
(* exported with an empty style filter without an error, and the exported   *)
(* sources merged into an empty project give a project equal to it.         *)
C5_ExportRoundtrip ==
    /\ (mpc = "exported" /\ style_filter = {}) => exported.ok
    /\ (mpc = "remerged" /\ style_filter = {}) =>
           (remerged.ok /\ FontgardenEq(remerged.glyphs, garden))

\* the merged sources by name
Merged == load_sources(sources).source_by_name

\* the glyphs of the primary layer of a merged source
PrimaryGlyphs(source_name) == Merged[source_name].layers[1].glyphs

\* the layers of the merged sources, other than the primary layers of
\* "Regular" and "Bold", that hold the glyph g
OtherLayersWith(g) ==
    {p \in UNION {{<<s, li>> : li \in 1..Len(Merged[s].layers)} : s \in DOMAIN Merged} :
        /\ ~(p[1] \in {Regular, Bold} /\ p[2] = 1)
        /\ g \in DOMAIN Merged[p[1]].layers[p[2]].glyphs}

(* C8: with a source named "Regular" among the merged sources, every glyph  *)
(* of its primary layer has, in the merged project, the codepoints that     *)
(* primary-layer glyph has, in whatever order the sources were processed;   *)
(* and a glyph that the primary layers of "Regular" and "Bold" define (and  *)
(* no other layer does) is one glyph with the layers "Regular" and "Bold".  *)
C8_RegularCodepoints ==
    (mpc = "merged" /\ Regular \in DOMAIN Merged) =>
        \A g \in DOMAIN PrimaryGlyphs(Regular) :
            /\ g \in DOMAIN garden
            /\ CodepointsEq(garden[g].codepoints, PrimaryGlyphs(Regular)[g].codepoints)
            /\ (/\ Bold \in DOMAIN Merged
                /\ g \in DOMAIN PrimaryGlyphs(Bold)
                /\ OtherLayersWith(g) = {})
               => DOMAIN garden[g].layers = {Regular, Bold}

----------------------------------------------------------------------------
\* the selective import has run and returned a project
ImportRan == mpc \in {"imported", "saved"}

\* the layer name is the key of no layer of an imported style
OfNoImportedStyle(layer_name) ==
    \A s \in DOMAIN Merged : ~belongs_to_style(layer_name, s)

InTargetSets == {g \in DOMAIN garden : SetNameOf(garden[g]) \in target_sets}

\* S holds every stored glyph that a component of a glyph of S names
ClosedUnderReferences(S) ==
    \A g \in S : component_bases(garden[g]) \cap DOMAIN garden \subseteq S

(* C10: with target sets given, reference_set holds the stored glyphs of    *)
(* the target sets, holds every stored glyph that a component of one of its *)
(* glyphs names, in any layer and whatever set that glyph is in, and is     *)
(* part of every set of stored glyphs of which both are true.               *)
C10_SmallestClosure ==
    (ImportRan /\ target_sets # {}) =>
        /\ InTargetSets \subseteq diff.reference_set
        /\ ClosedUnderReferences(diff.reference_set)
        /\ \A S \in SUBSET DOMAIN garden :
              (InTargetSets \subseteq S /\ ClosedUnderReferences(S))
                  => diff.reference_set \subseteq S

\* "A" of set Latin refers to "B" of no set, which refers to "C" of set Test
\* from a background layer: with the target set Latin all three are referred to
C10_Witness ==
    /\ ImportRan
    /\ target_sets = {Latin}
    /\ InTargetSets = {<<"A">>}
    /\ garden[<<"A">>].set = Some(Latin)
    /\ diff.reference_set = {<<"A">>, <<"B">>, <<"C">>}
    /\ garden[<<"B">>].set = None
    /\ <<"C">> \in component_bases(garden[<<"B">>])
----------------------------------------------------------------------------
\* the layers of a glyph that hold an anchor, a component, a contour or an advance
NonEmptyLayers(glyph) ==
    {l \in DOMAIN glyph.layers :
        \/ glyph.layers[l].anchors # <<>>
        \/ glyph.layers[l].components # <<>>
        \/ glyph.layers[l].contours # <<>>
        \/ glyph.layers[l].x_advance # None
        \/ glyph.layers[l].y_advance # None}

----------------------------------------------------------------------------
\* every layer of the project has a height exactly when it has a vertical origin
VerticalMetricsPaired(glyphs) ==
    \A n \in DOMAIN glyphs : \A l \in DOMAIN glyphs[n].layers :
        glyphs[n].layers[l].y_advance # None <=> glyphs[n].layers[l].vertical_origin # None

(* C12: in the project a merge returns and in the project a load returns,   *)
(* every layer has y_advance present exactly when vertical_origin is present. *)
C12_VerticalMetricsPaired ==
    /\ mpc = "merged" => VerticalMetricsPaired(garden)
    /\ loaded.ok => VerticalMetricsPaired(loaded.glyphs)

----------------------------------------------------------------------------
\* every glyph found is a glyph of the project, with the manifest, the row and
\* the layers the project gives it
FoundIn(found, glyphs) ==
    \A n \in DOMAIN found :
        /\ n \in DOMAIN glyphs
        /\ SetNameOf(found[n]) = SetNameOf(glyphs[n])
        /\ SetRecordRow(n, found[n]) = SetRecordRow(n, glyphs[n])
        /\ \A l \in DOMAIN found[n].layers :
              /\ l \in DOMAIN glyphs[n].layers
              /\ found[n].layers[l] = glyphs[n].layers[l]

(* C13: after a project was saved to a path that held a directory, a load of *)
(* the path finds only glyphs, manifest rows and layers of that project,     *)
(* nothing of what the directory held before.                                *)
C13_SaveRewrites == (replaced.is_dir /\ loaded.ok) => FoundIn(loaded.glyphs, garden)

\* the directory held a manifest, a glyph directory and a payload file that the
\* save did not write again, and the load after the save succeeded
C13_Witness ==
    /\ replaced.is_dir
    /\ loaded.ok
    /\ \E f \in DOMAIN replaced.files :
          ManifestSetName(f) # None /\ f \notin DOMAIN disk.files
    /\ \E d \in DOMAIN replaced.glyphs :
          /\ d \in DOMAIN disk.glyphs
          /\ \E f \in DOMAIN replaced.glyphs[d] : f \notin DOMAIN disk.glyphs[d]
    /\ \E d \in DOMAIN replaced.glyphs :
          d \in {name_to_filename(n) : n \in StoredGlyphNames} /\ d \notin DOMAIN disk.glyphs

----------------------------------------------------------------------------
\* the style name a source resolves to: its own, "Regular" without one
ResolvedStyle(font) == IF font.style_name = {} THEN Regular ELSE Unwrap(font.style_name)

\* two of the sources resolve to the same style name
DuplicateStyle(srcs) ==
    \E i, j \in 1..Len(srcs) : i # j /\ ResolvedStyle(srcs[i]) = ResolvedStyle(srcs[j])

----------------------------------------------------------------------------
(* C15: a load of a path that is no directory fails with the               *)
(* not-a-fontgarden error, reads no file and returns no project.           *)
C15_NotADirectoryFails ==
    (loaded # NotLoaded /\ ~disk.is_dir) =>
        /\ ~loaded.ok
        /\ loaded.err = "NotAFontgarden"
        /\ readOrder = <<>>

\* a load of a path that is no directory has failed
C15_Witness == ~disk.is_dir /\ loaded # NotLoaded /\ ~loaded.ok

----------------------------------------------------------------------------
\* the sources that can be the default source of the merge
DefaultCandidates == IF Regular \in DOMAIN Merged THEN {Regular} ELSE DOMAIN Merged

\* the codepoints of every glyph are those its glyph in the primary layer of
\* source s has, and none for a glyph that layer does not hold
CodepointsFromPrimary(s) ==
    \A g \in DOMAIN garden :
        CodepointsEq(garden[g].codepoints,
                     IF g \in DOMAIN PrimaryGlyphs(s)
                     THEN PrimaryGlyphs(s)[g].codepoints
                     ELSE <<>>)

(* C16: in a merge, a glyph processed in a layer other than the primary     *)
(* layer of the default source keeps its codepoints: in the merged project  *)
(* every glyph has the codepoints the default source's primary layer gave   *)
(* it, and none when that layer does not hold it.                           *)
C16_OtherLayersKeepCodepoints ==
    mpc = "merged" => \E s \in DefaultCandidates : CodepointsFromPrimary(s)

----------------------------------------------------------------------------
\* every glyph that the lookup gave a set in the primary layer of source s has
\* that set
SetFromPrimary(s) ==
    \A g \in DOMAIN PrimaryGlyphs(s) :
        categorize_glyph(g, PrimaryGlyphs(s)[g]) # None =>
            (g \in DOMAIN garden /\ garden[g].set = categorize_glyph(g, PrimaryGlyphs(s)[g]))

(* C17: a merge looks a set up only for a glyph that has none: the set a    *)
(* glyph was given in the primary layer of the default source is the set it *)
(* has in the merged project, whatever layers were processed after it.      *)
C17_AssignedSetKept ==
    mpc = "merged" => \E s \in DefaultCandidates : SetFromPrimary(s)

----------------------------------------------------------------------------
\* the first element of a sequence of options that holds a value, None if none does
FirstSome(options) ==
    LET found == {i \in 1..Len(options) : options[i] # None}
    IN  IF found = {} THEN None
        ELSE options[CHOOSE i \in found : \A j \in found : i <= j]

\* the script of the first lookup that yields one: by the first codepoint, by
\* the full name, by the name before the first '.'
FirstScript(glyph_name, glyph) ==
    FirstSome(<<IF glyph.codepoints # <<>>
                THEN ScriptOf(record_for_unicode(glyph.codepoints[1]))
                ELSE None,
                ScriptOf(record_for_name(glyph_name)),
                IF split_once(glyph_name) # None
                THEN ScriptOf(record_for_name(Unwrap(split_once(glyph_name))[1]))
                ELSE None>>)

\* every glyph of the primary layer of source s has the set FirstScript gives
SetIsFirstScript(s) ==
    \A g \in DOMAIN PrimaryGlyphs(s) :
        g \in DOMAIN garden /\ garden[g].set = FirstScript(g, PrimaryGlyphs(s)[g])

(* C18: the set a merge chooses for a glyph is the script found by the first *)
(* lookup that yields one: by the first codepoint, else by the full name,    *)
(* else by the name before the first '.'; no set only if none yields one.    *)
(* Stated of Fontgarden::import_ufo_sources, which looks the set up once.    *)
C18_FirstLookupWithScript ==
    (mpc = "merged" /\ engine = "ufo.rs") => \E s \in DefaultCandidates : SetIsFirstScript(s)

----------------------------------------------------------------------------
\* the sources without their font-wide dictionaries
WithoutLib(source_by_name) ==
    [s \in DOMAIN source_by_name |-> [source_by_name[s] EXCEPT !.lib = <<>>]]

\* the project the function that ran merges from the sources without their
\* dictionaries, processed in the order given
MergedWithoutLib(order) ==
    IF engine = "main.rs" THEN import_ufos_into_fontgarden(WithoutLib(Merged), order)
    ELSE import_ufo_sources(<<>>, WithoutLib(Merged), order)

\* the two projects hold the same glyphs with the same codepoints, sets and layers
SameButAliasAndCategory(glyphs, others) ==
    /\ DOMAIN glyphs = DOMAIN others
    /\ \A g \in DOMAIN glyphs :
          /\ glyphs[g].codepoints = others[g].codepoints
          /\ glyphs[g].set = others[g].set
          /\ glyphs[g].layers = others[g].layers

(* C19: applying the default source's alias and category dictionaries adds  *)
(* no glyph and changes no glyph's codepoints, set or layers: the merged    *)
(* project differs from the one merged without the dictionaries only in     *)
(* aliases and categories.                                                  *)
C19_DictionariesOnlyOverride ==
    mpc = "merged" =>
        \E order \in Perms(DOMAIN Merged) :
            SameButAliasAndCategory(garden, MergedWithoutLib(order))

\* the alias dictionary of the default source names a glyph that the merged
\* project holds, which has the alias, and a glyph that it does not hold
C19_Witness ==
    /\ mpc = "merged"
    /\ \E s \in DefaultCandidates :
          /\ DefaultCandidates = {s}
          /\ PostscriptNamesKey \in DOMAIN Merged[s].lib
          /\ Merged[s].lib[PostscriptNamesKey].type = "dictionary"
          /\ \E k \in DOMAIN Merged[s].lib[PostscriptNamesKey].value : k \notin DOMAIN garden
          /\ \E k \in DOMAIN Merged[s].lib[PostscriptNamesKey].value :
                k \in DOMAIN garden /\ garden[k].postscript_name # None

----------------------------------------------------------------------------
\* the layer key is the primary layer of the style or one of its secondary layers
LayerOfStyle(layer_name, style) ==
    \/ layer_name = style
    \/ /\ Len(layer_name) > Len(style) + 1
       /\ SubSeq(layer_name, 1, Len(style) + 1) = style \o <<".">>

\* the exported sources hold glyph g in the layer that the stored layer key
\* names: the default layer of the source for a primary layer, else the layer
\* named by the part after the first '.'
ExportedInto(ufos, layer_name, g) ==
    /\ base_of(layer_name) \in DOMAIN ufos
    /\ \E i \in 1..Len(ufos[base_of(layer_name)].layers) :
          /\ IF suffix_of(layer_name) = None THEN i = 1
             ELSE i > 1 /\ ufos[base_of(layer_name)].layers[i].name =
                               Unwrap(suffix_of(layer_name))
          /\ g \in DOMAIN ufos[base_of(layer_name)].layers[i].glyphs

\* every stored layer of the styles given is in the exported sources
StylesExported(ufos, styles) ==
    \A g \in DOMAIN garden : \A l \in DOMAIN garden[g].layers :
        (\E s \in styles : LayerOfStyle(l, s)) => ExportedInto(ufos, l, g)

(* C20: an export with a style filter returns sources only for the styles of *)
(* the filter, and the source of each such style holds the glyphs of the     *)
(* style's primary layer and of each of its secondary layers; an export     *)
(* without a filter exports every stored layer.                              *)
C20_FilterExportsWholeStyles ==
    (mpc \in {"exported", "remerged"} /\ exported.ok) =>
        IF style_filter = {}
        THEN \A g \in DOMAIN garden : \A l \in DOMAIN garden[g].layers :
                 ExportedInto(exported.ufos, l, g)
        ELSE /\ DOMAIN exported.ufos \subseteq style_filter
             /\ StylesExported(exported.ufos, style_filter)

----------------------------------------------------------------------------
\* the glyphs of the merged project with an exported primary layer and an alias
\* or a category that is not the default
RegisteredGlyphs ==
    {g \in DOMAIN garden :
        /\ \E l \in DOMAIN garden[g].layers :
              /\ \A i \in 1..Len(l) : l[i] # "."
              /\ (style_filter = {} \/ l \in style_filter)
        /\ (garden[g].postscript_name # {} \/ garden[g].opentype_category # "Unassigned")}

(* C21: a glyph with a primary layer and an alias or a category has, in the *)
(* project merged from the exported sources, the alias and the category it  *)
(* had in the exported project.                                             *)
C21_AliasAndCategoryRoundtrip ==
    (mpc = "remerged" /\ remerged.ok) =>
        \A g \in RegisteredGlyphs :
            /\ g \in DOMAIN remerged.glyphs
            /\ remerged.glyphs[g].postscript_name = garden[g].postscript_name
            /\ remerged.glyphs[g].opentype_category = garden[g].opentype_category

\* the layers of a task written one after another
RECURSIVE write_layers(_, _, _, _, _)
write_layers(d, folds, glyph_name, glyph, todo) ==
    IF todo = {} THEN d
    ELSE LET layer_name == CHOOSE l \in todo : TRUE
         IN  write_layers(write_layer(d, folds, glyph_name, layer_name, glyph.layers[layer_name]),
                          folds, glyph_name, glyph, todo \ {layer_name})

\* the tasks run one after another, in the order given
RECURSIVE run_tasks(_, _, _, _, _)
run_tasks(d, folds, glyphs, order, i) ==
    IF i > Len(order) THEN d
    ELSE run_tasks(write_layers(create_dir_all(d, folds, order[i]), folds, order[i],
                                glyphs[order[i]], save_tasks(glyphs)[order[i]].layers),
                   folds, glyphs, order, i + 1)

\* two tasks of the running save whose glyph directories are one directory
SharedDirectory ==
    \E g1, g2 \in DOMAIN save_tasks(garden) :
        /\ g1 # g2
        /\ Canon(fs_folds, name_to_filename(g1)) = Canon(fs_folds, name_to_filename(g2))

(* C22: during save no two parallel tasks write below the same glyph         *)
(* directory, and when the save has ended without a failed call the glyph    *)
(* directories hold what the tasks leave when they run one after another,    *)
(* in any order.                                                             *)
C22_TasksWriteDisjointPaths ==
    (spc \in {"writing", "aborting", "done"}) =>
        /\ ~SharedDirectory
        /\ (spc = "done" /\ ~io_failed) =>
              \A order \in Perms(DOMAIN save_tasks(garden)) :
                  disk.glyphs = run_tasks(create_dir, fs_folds, garden, order, 1).glyphs

\* a call of the save has failed after the removal of the directory that was there
FailedAfterRemoval == io_failed /\ (save_result.ok \/ save_result.err # "Cleanup")

\* every file and directory of d is one this save of the project writes
WrittenBySave(d) ==
    /\ \A f \in DOMAIN d.files :
          \E set_name \in glyphs_by_set(garden) : f = Canon(fs_folds, SetInfoPath(set_name))
    /\ \A dir \in DOMAIN d.glyphs :
          \E g \in DOMAIN save_tasks(garden) :
              /\ dir = Canon(fs_folds, name_to_filename(g))
              /\ \A f \in DOMAIN d.glyphs[dir] :
                    \E g2 \in DOMAIN save_tasks(garden) :
                        /\ dir = Canon(fs_folds, name_to_filename(g2))
                        /\ \E l \in save_tasks(garden)[g2].layers :
                              f = Canon(fs_folds, LayerFilename(l))

\* every file and directory of d is in e
KeptIn(d, e) ==
    /\ DOMAIN d.files \subseteq DOMAIN e.files
    /\ DOMAIN d.glyphs \subseteq DOMAIN e.glyphs
    /\ \A dir \in DOMAIN d.glyphs : DOMAIN d.glyphs[dir] \subseteq DOMAIN e.glyphs[dir]

(* C23: a save with a call that failed after the removal of the earlier     *)
(* directory returns an error, never Ok; the path then holds only what this *)
(* save wrote, nothing of the earlier content; and no step of the save,     *)
(* the failing one and the return included, takes away a file or directory  *)
(* that the save has written.                                               *)
C23_FailedSaveReturnsError ==
    /\ []((spc = "done" /\ FailedAfterRemoval) =>
              (~save_result.ok /\ WrittenBySave(disk)))
    /\ [][(spc \in {"writing", "aborting"}) => KeptIn(disk, disk')]_vars

\* a save over an earlier directory whose layer write failed after a manifest
\* and a glyph directory were written
C23_Witness ==
    /\ spc = "done"
    /\ FailedAfterRemoval
    /\ save_result.err \in {"SaveLayer", "SaveLayerJson"}
    /\ replaced.is_dir
    /\ replaced.files # <<>>
    /\ disk.files # <<>>
    /\ \E dir \in DOMAIN disk.glyphs : disk.glyphs[dir] # <<>>

\* the glyph names in the rows of the set manifests of a directory
ManifestNames(d) == UNION {RowNames(d, f) : f \in Manifests(d)}

\* the glyph directories of d that are the directory of no name of the manifests
UnnamedDirectories(d) ==
    {dir \in DOMAIN d.glyphs : \A n \in ManifestNames(d) : name_to_filename(n) # dir}

\* every layer of the glyph is a payload of the glyph's own directory
LayersOfOwnDirectory(d, glyph_name, glyph) ==
    \A l \in DOMAIN glyph.layers :
        /\ name_to_filename(glyph_name) \in DOMAIN d.glyphs
        /\ \E f \in PayloadFiles(d.glyphs[name_to_filename(glyph_name)]) :
              /\ filename_to_name(FileStem(f)) = l
              /\ glyph.layers[l] = LayerFromJson(d.glyphs[name_to_filename(glyph_name)][f])

(* C24: the project load returns has exactly the glyph names of the rows of  *)
(* the set manifests; a glyph directory no row names adds no glyph, every    *)
(* layer of a glyph is a payload of the glyph's own directory, and a glyph   *)
(* of the manifests without a directory has an empty layer map.              *)
C24_GlyphsAreManifestNames ==
    (LoadRan /\ loaded.ok) =>
        /\ DOMAIN loaded.glyphs = ManifestNames(disk)
        /\ \A n \in DOMAIN loaded.glyphs :
              /\ LayersOfOwnDirectory(disk, n, loaded.glyphs[n])
              /\ name_to_filename(n) \notin DOMAIN disk.glyphs =>
                    loaded.glyphs[n].layers = <<>>

\* a directory loaded with a glyph directory that no row names, holding a
\* payload, and a glyph of the manifests that has no directory
C24_Witness ==
    /\ LoadRan
    /\ loaded.ok
    /\ \E dir \in UnnamedDirectories(disk) : PayloadFiles(disk.glyphs[dir]) # {}
    /\ \E n \in DOMAIN loaded.glyphs : name_to_filename(n) \notin DOMAIN disk.glyphs

(* C25 as stated: the project after the same sources were merged a second   *)
(* time, with the same default source, equals the project after the first   *)
(* merge.                                                                   *)
C25_MergeIdempotent ==
    (mpc = "merged twice") => FontgardenEq(merged_twice.glyphs, garden)

\* the layers of the sources, each as <<source name, index>>
SourceLayers(source_by_name) ==
    UNION {{<<s, li>> : li \in 1..Len(source_by_name[s].layers)} : s \in DOMAIN source_by_name}

\* two layers of the sources hold a glyph of the same name and are stored
\* under the same layer name
CollidingLayers(source_by_name) ==
    \E p, q \in SourceLayers(source_by_name) :
        /\ p # q
        /\ layer_name_of(p[1], source_by_name[p[1]], p[2])
              = layer_name_of(q[1], source_by_name[q[1]], q[2])
        /\ DOMAIN source_by_name[p[1]].layers[p[2]].glyphs
              \cap DOMAIN source_by_name[q[1]].layers[q[2]].glyphs # {}

(* C25: the project after the same sources were merged a second time, with   *)
(* the same default source, equals the project after the first merge when no *)
(* glyph is in two layers of the sources that are stored under one name.     *)
C25_MergeIdempotentWithoutCollision ==
    (mpc = "merged twice" /\ ~CollidingLayers(load_sources(sources).source_by_name)) =>
        FontgardenEq(merged_twice.glyphs, garden)

\* two sources with a glyph in common merged twice by ufo.rs into one project
C25_Witness ==
    /\ mpc = "merged twice"
    /\ engine = "ufo.rs"
    /\ ~CollidingLayers(load_sources(sources).source_by_name)
    /\ Cardinality(DOMAIN load_sources(sources).source_by_name) = 2
    /\ \E g \in DOMAIN garden : Cardinality(DOMAIN garden[g].layers) > 2

=============================================================================
